---------------------------- MODULE Spec2Model ----------------------------
(***************************************************************************)
(* Rate limiting of mcp_atlassian (utils/rate_limit.py): the token bucket  *)
(* (TokenBucket), its blocking and cooperative acquisition loops, and the  *)
(* retrying HTTP adapter (RateLimitedAdapter.send), the per-service       *)
(* registry of buckets (RateLimiterRegistry) and its construction, the     *)
(* policy read from the environment (get_config_from_env) and the mounting *)
(* of adapters on sessions (configure_rate_limiting).                      *)
(*                                                                         *)
(* Arithmetic.  The code computes with floats over time.monotonic().  The  *)
(* model computes exactly, in fixed point: the clock counts ticks, one     *)
(* token is One token-units, requests_per_second is a number of            *)
(* token-units per tick, and every policy drawn has a requests_per_second  *)
(* that divides One, so that every quotient the code forms is exact.       *)
(* Float rounding is outside the model.                                    *)
(***************************************************************************)
EXTENDS Integers, Sequences, FiniteSets, TLC

\* ---------------------------------------------------------------- bounds
NumThreads == 2          \* concurrent callers (threads or coroutines)
NumSenders == 1          \* the callers among them that call send
MaxTime == 3             \* the monotonic clock is observed in 0..MaxTime
MaxBurstCapacity == 2    \* burst_capacity is drawn from 1..MaxBurstCapacity
MaxBackoffBase == 2      \* backoff_base is drawn from 1..MaxBackoffBase
MaxMaxRetries == 2       \* max_retries is drawn from 0..MaxMaxRetries
MaxBuckets == 2          \* TokenBuckets the registry constructs in one run
LastCallTime == 1        \* calls of the liveness specifications begin by then
MaxRegistryTime == 1     \* the clock of the registry specifications: 0..this
NumSessions == 2         \* requests sessions configure_rate_limiting is given
MaxAdapters == 2         \* RateLimitedAdapters built in one run

One == 2                 \* token-units in one token: the fixed-point 1.0

\* ------------------------------------------------------ program constants
TooManyRequests == 429   \* the status send retries

Min(a, b) == IF a <= b THEN a ELSE b

Threads == 1..NumThreads
Senders == 1..Min(NumSenders, NumThreads)
NoThread == 0

RECURSIVE Pow2(_)
Pow2(n) == IF n <= 0 THEN 1 ELSE 2 * Pow2(n - 1)

\* requests_per_second values whose quotients (1.0 - tokens) / rps are exact
RpsChoices == {r \in 1..One : One % r = 0}

\* RateLimitConfig values within the data model (all of rps, burst and
\* backoff positive, max_retries >= 0)
RateLimitConfig ==
    [requests_per_second : RpsChoices,
     burst_capacity : 1..MaxBurstCapacity,
     backoff_base : 1..MaxBackoffBase,
     max_retries : 0..MaxMaxRetries]

\* The policies of the bucket-level specification: the retry fields play no
\* part in TokenBucket, so they are held at their least values there.
BucketConfigs ==
    {c \in RateLimitConfig : c.backoff_base = 1 /\ c.max_retries = 0}

\* ------------------------------------------------------------ TokenBucket
\* TokenBucket.__init__: a full bucket, last refilled at construction time
TokenBucket(config, now) ==
    [config |-> config,
     tokens |-> config.burst_capacity * One,
     last_refill |-> now]

\* _refill as it would be without the min(burst_capacity, ...) clamp
RefillUnclamped(b, now) ==
    [b EXCEPT !.tokens = b.tokens
                  + (now - b.last_refill) * b.config.requests_per_second,
              !.last_refill = now]

\* _refill as it would be without `self.last_refill = now`
RefillKeepsTime(b, now) ==
    [b EXCEPT !.tokens = Min(b.config.burst_capacity * One,
                             b.tokens + (now - b.last_refill)
                                          * b.config.requests_per_second)]

\* TokenBucket._refill, with `now` the value time.monotonic() returns
_refill(b, now) ==
    LET elapsed == now - b.last_refill
        tokens_to_add == elapsed * b.config.requests_per_second
    IN  [b EXCEPT !.tokens = Min(b.config.burst_capacity * One,
                                 b.tokens + tokens_to_add),
                  !.last_refill = now]

\* get_wait_time as it would be if it computed the wait from the tokens it
\* found, before the refill
GetWaitTimeStale(b, now) ==
    [bucket |-> _refill(b, now),
     result |-> IF b.tokens >= One
                THEN 0
                ELSE (One - b.tokens) \div b.config.requests_per_second]

\* get_wait_time as it would be if it never asked for a wait
GetWaitTimeNeverWaits(b, now) == [bucket |-> _refill(b, now), result |-> 0]

\* TokenBucket.get_wait_time under the data lock: the bucket it leaves and
\* the value it returns
get_wait_time(b, now) ==
    LET r == _refill(b, now)
        tokens_needed == One - r.tokens
    IN  [bucket |-> r,
         result |-> IF r.tokens >= One
                    THEN 0
                    ELSE tokens_needed \div r.config.requests_per_second]

\* try_acquire as it would be without `self.tokens -= 1.0`
TryAcquireKeepsToken(b, now) ==
    [bucket |-> _refill(b, now), result |-> _refill(b, now).tokens >= One]

\* try_acquire as it would be without its self._refill()
TryAcquireNoRefill(b, now) ==
    IF b.tokens >= One
    THEN [bucket |-> [b EXCEPT !.tokens = @ - One], result |-> TRUE]
    ELSE [bucket |-> b, result |-> FALSE]

\* TokenBucket.try_acquire under the data lock: the bucket it leaves and
\* the value it returns
try_acquire(b, now) ==
    LET r == _refill(b, now)
    IN  IF r.tokens >= One
        THEN [bucket |-> [r EXCEPT !.tokens = @ - One], result |-> TRUE]
        ELSE [bucket |-> r, result |-> FALSE]


\* ----------------------------------------------------- RateLimitedAdapter
\* Header values are sequences of characters.  Absent is the missing header
\* (headers.get returns None).
Absent == <<>>
DigitChars == <<"0", "1", "2", "3", "4", "5", "6", "7", "8", "9">>
IsDigit(c) == \E i \in 1..Len(DigitChars) : DigitChars[i] = c
DigitValue(c) == (CHOOSE i \in 1..Len(DigitChars) : DigitChars[i] = c) - 1

RECURSIVE DecimalValue(_)
DecimalValue(s) ==
    IF s = <<>> THEN 0
    ELSE 10 * DecimalValue(SubSeq(s, 1, Len(s) - 1)) + DigitValue(s[Len(s)])

\* Python values are tagged with their kind, so that values of different
\* types can be told apart
None == [kind |-> "None", v |-> 0]
Number(n) == [kind |-> "num", v |-> n]
Boolean(b) == [kind |-> "bool", v |-> b]
Response(r) == [kind |-> "Response", v |-> r]
Exception(e) == [kind |-> "Exception", v |-> e]
Bucket(i) == [kind |-> "TokenBucket", v |-> i]
Registry(i) == [kind |-> "RateLimiterRegistry", v |-> i]

\* Python's float(str) on the text forms the model draws: an optional sign,
\* then decimal digits, "inf" or "nan"; anything else raises ValueError,
\* given here as None.
float(s) ==
    LET signed == s # <<>> /\ s[1] \in {"-", "+"}
        negative == s # <<>> /\ s[1] = "-"
        body == IF signed THEN Tail(s) ELSE s
    IN  IF body # <<>> /\ \A i \in 1..Len(body) : IsDigit(body[i])
        THEN Number(IF negative THEN 0 - DecimalValue(body)
                    ELSE DecimalValue(body))
        ELSE IF body = <<"i", "n", "f">>
        THEN [kind |-> IF negative THEN "-inf" ELSE "inf", v |-> 0]
        ELSE IF body = <<"n", "a", "n">>
        THEN [kind |-> "nan", v |-> 0]
        ELSE None

\* RateLimitedAdapter._parse_retry_after
_parse_retry_after(resp) ==
    LET retry_after == resp.retry_after
    IN  IF retry_after = Absent THEN None ELSE float(retry_after)

\* The Retry-After headers the remote side is given to answer with
RetryAfterHeaders ==
    {Absent,
     <<"0">>, <<"1">>, <<"2">>,
     <<"-", "1">>,
     <<"i", "n", "f">>,
     <<"n", "a", "n">>,
     <<"s", "o", "o", "n">>,
     <<"W", "e", "d", ",", " ", "2", "1", " ", "O", "c", "t">>}

\* The responses of the underlying send: a status and a Retry-After header
OtherStatusCodes == {200, 404, 503}
Responses ==
    [status_code : OtherStatusCodes, retry_after : {Absent}]
    \cup [status_code : {TooManyRequests}, retry_after : RetryAfterHeaders]

\* The backoff as it would be with the exponent one too high
BackoffDelayDoubled(config, n) ==
    [kind |-> "num", v |-> config.backoff_base * Pow2(n)]

\* The delay send computes after its retries-th 429 (retries already
\* incremented): Retry-After when it parses, else exponential backoff
BackoffDelay(config, n) == Number(config.backoff_base * Pow2(n - 1))

\* The delay as it would be if send never looked at Retry-After
SendWaitTimeBackoffOnly(config, resp, n) == BackoffDelay(config, n)

SendWaitTime(config, resp, n) ==
    LET retry_after == _parse_retry_after(resp)
    IN  IF retry_after # None THEN retry_after ELSE BackoffDelay(config, n)

\* time.sleep(d): a negative or NaN length raises ValueError, an infinite
\* one OverflowError; "None" where the sleep begins
SleepError(d) ==
    CASE d.kind = "num" /\ d.v >= 0 -> "None"
      [] d.kind = "inf" -> "OverflowError"
      [] OTHER -> "ValueError"

\* ---------------------------------------------------- RateLimiterRegistry
\* Service names are sequences of characters, as the headers are.
UpperChars == <<"A", "B", "C", "D", "E", "F", "G", "H", "I", "J", "K", "L", "M",
                "N", "O", "P", "Q", "R", "S", "T", "U", "V", "W", "X", "Y", "Z">>
LowerChars == <<"a", "b", "c", "d", "e", "f", "g", "h", "i", "j", "k", "l", "m",
                "n", "o", "p", "q", "r", "s", "t", "u", "v", "w", "x", "y", "z">>
LowerChar(c) ==
    IF \E i \in 1..Len(UpperChars) : UpperChars[i] = c
    THEN LowerChars[CHOOSE i \in 1..Len(UpperChars) : UpperChars[i] = c]
    ELSE c

\* str.lower() as it would be if the key were the name as given
LowerVerbatim(s) == s

\* str.lower(), on ASCII names
lower(s) == [i \in 1..Len(s) |-> LowerChar(s[i])]

\* The names callers pass as service_name
Jira == <<"j", "i", "r", "a">>
Confluence == <<"c", "o", "n", "f", "l", "u", "e", "n", "c", "e">>
ServiceNames == {Jira, <<"J", "I", "R", "A">>, Confluence}

\* Every key a dict of the registry could come to hold for those names
DictKeys == ServiceNames \cup {lower(n) : n \in ServiceNames}

\* RateLimitConfig(...): a dataclass with no __post_init__, so the
\* constructor stores whatever it is given
RateLimitConfigNew(rps, burst, backoff, max_retries) ==
    [requests_per_second |-> rps,
     burst_capacity |-> burst,
     backoff_base |-> backoff,
     max_retries |-> max_retries]

\* The policies callers hand to configure: one of the data model, and one
\* outside it (no refill, no capacity, no backoff)
ConfiguredPolicies ==
    {RateLimitConfigNew(One, 1, MaxBackoffBase, 0),
     RateLimitConfigNew(0, 0, 0, 0)}

NoName == <<>>

\* ------------------------------------------------------ get_config_from_env
\* str.upper(), on ASCII names
UpperChar(c) ==
    IF \E i \in 1..Len(LowerChars) : LowerChars[i] = c
    THEN UpperChars[CHOOSE i \in 1..Len(LowerChars) : LowerChars[i] = c]
    ELSE c
upper(s) == [i \in 1..Len(s) |-> UpperChar(s[i])]

\* The name of an environment variable, f"{prefix}_{suffix}", kept as the
\* pair of its parts; NoEnvName is the service_key None
EnvName(prefix, suffix) == <<prefix, suffix>>
NoEnvName == <<>>
Atlassian == <<"A", "T", "L", "A", "S", "S", "I", "A", "N">>
Suffixes == {"RATE_LIMIT_RPS", "RATE_LIMIT_BURST", "RATE_LIMIT_BACKOFF_BASE",
             "RATE_LIMIT_MAX_RETRIES"}
EnvNames ==
    {EnvName(p, x) : p \in {Atlassian} \cup {upper(n) : n \in ServiceNames},
                     x \in Suffixes}

\* The values of os.getenv: a str, or None for a variable that is not set
\* (carried with an empty text, so that all values have one shape)
Str(s) == [kind |-> "str", v |-> s]
Unset == [kind |-> "None", v |-> <<>>]
getenv(env, name) == IF name \in DOMAIN env THEN env[name] ELSE Unset

\* `if global_val:`: None and "" are false, every other str is true
Truthy(x) == x.kind = "str" /\ x.v # <<>>

\* Python's int(str) on the text forms the model draws: an optional sign,
\* then decimal digits; anything else ("inf" too) raises ValueError, given
\* here as None.
int(s) ==
    LET signed == s # <<>> /\ s[1] \in {"-", "+"}
        negative == s # <<>> /\ s[1] = "-"
        body == IF signed THEN Tail(s) ELSE s
    IN  IF body # <<>> /\ \A i \in 1..Len(body) : IsDigit(body[i])
        THEN Number(IF negative THEN 0 - DecimalValue(body)
                    ELSE DecimalValue(body))
        ELSE None

\* float(text) or int(text), by the name of the type
Parse(type, s) == IF type = "float" THEN float(s) ELSE int(s)

\* One level of get_float / get_int: the variable's value when it is set,
\* not empty and parses, else the value so far (the except clause only
\* logs a warning)
Override(env, key, type, value) ==
    LET val == getenv(env, key)
        parsed == IF Truthy(val) THEN Parse(type, val.v) ELSE None
    IN  IF key # NoEnvName /\ parsed.kind # "None" THEN parsed ELSE value

\* get_float as it would be with the global variable read last
GetFloatGlobalLast(env, global_key, service_key, default) ==
    Override(env, global_key, "float",
             Override(env, service_key, "float", Number(default)))

\* get_float (nested in get_config_from_env): default, then the global
\* variable, then the service variable
get_float(env, global_key, service_key, default) ==
    Override(env, service_key, "float",
             Override(env, global_key, "float", Number(default)))

\* get_int (nested in get_config_from_env)
get_int(env, global_key, service_key, default) ==
    Override(env, service_key, "int",
             Override(env, global_key, "int", Number(default)))

\* The hard-coded defaults of the four fields
DefaultRps == 10
DefaultBurst == 20
DefaultBackoffBase == 1
DefaultMaxRetries == 5

\* The policy an environment resolves to for a service name (NoName: no
\* service name, None or ""); its fields are tagged numbers, float fields
\* may be inf or nan
ResolveEnv(env, service_name) ==
    LET service_prefix == IF service_name # NoName THEN upper(service_name)
                          ELSE NoName
        ServiceKey(x) == IF service_prefix # NoName
                         THEN EnvName(service_prefix, x) ELSE NoEnvName
    IN  RateLimitConfigNew(
            get_float(env, EnvName(Atlassian, "RATE_LIMIT_RPS"),
                      ServiceKey("RATE_LIMIT_RPS"), DefaultRps),
            get_int(env, EnvName(Atlassian, "RATE_LIMIT_BURST"),
                    ServiceKey("RATE_LIMIT_BURST"), DefaultBurst),
            get_float(env, EnvName(Atlassian, "RATE_LIMIT_BACKOFF_BASE"),
                      ServiceKey("RATE_LIMIT_BACKOFF_BASE"), DefaultBackoffBase),
            get_int(env, EnvName(Atlassian, "RATE_LIMIT_MAX_RETRIES"),
                    ServiceKey("RATE_LIMIT_MAX_RETRIES"), DefaultMaxRetries))

\* A policy whose fields are finite numbers, with the tags taken off: the
\* form the buckets compute with
Finite(c) == [f \in DOMAIN c |-> c[f].v]

\* The text of a number below ten
Digit(n) == <<DigitChars[n + 1]>>

\* The environment of the bucket, send and registry specifications: the
\* global variables set, to a policy of the data model, and no service
\* variable
FixedEnviron ==
    [name \in EnvNames |->
        IF name[1] # Atlassian THEN Unset
        ELSE CASE name[2] = "RATE_LIMIT_RPS" -> Str(Digit(1))
               [] name[2] = "RATE_LIMIT_BURST" -> Str(Digit(MaxBurstCapacity))
               [] name[2] = "RATE_LIMIT_BACKOFF_BASE" -> Str(Digit(1))
               [] OTHER -> Str(Digit(MaxMaxRetries))]

NoBucket == 0
NoPolicy == [requests_per_second |-> 0, burst_capacity |-> 0,
             backoff_base |-> 0, max_retries |-> -1]
\* dict.get(key, default)
DictGet(d, key, default) == IF d[key] = NoPolicy THEN default ELSE d[key]

\* d[key] = value as it would be if it bound every key of the dict
DictSetAll(d, key, value) == [k \in DOMAIN d |-> value]

\* d[key] = value
DictSet(d, key, value) == [d EXCEPT ![key] = value]

\* The history of a key nothing was built or handed out for: the buckets
\* get_limiter built, the buckets it returned, the names it returned them to
NothingIssued == [made |-> 0, handed |-> {}, names |-> {}]

\* A caller outside every registry call
NoRegistryCall ==
    [service_name |-> NoName, service_key |-> NoName, config |-> NoPolicy,
     env_read |-> FALSE, session |-> 0, rate_limiter |-> 0, adapter |-> 0]

\* ------------------------------------------------------------------ state
VARIABLES
    clock,        \* time.monotonic()
    bucket,       \* the shared TokenBucket: config, tokens, last_refill
    lock,         \* TokenBucket._lock: the thread holding it, or NoThread
    async_lock,   \* TokenBucket._async_lock: "None", "unlocked" or "locked"
    alock,        \* the asyncio.Lock objects of the bucket, by identity:
                  \*   made, how many _get_async_lock created (the latest is
                  \*   the one _async_lock refers to), and mine, the one each
                  \*   caller's `async with` is on (0 when on none)
    adapter,      \* the RateLimitedAdapter: its config
    pc,           \* each caller's position in the code
    top,          \* the public operation each caller last entered
    state,        \* "none", "running", "returned" or "raised" for that call
    ret,          \* the value that call returned or raised (None when none)
    wait_time,    \* the local wait_time of acquire / acquire_async / send
    wake,         \* the clock value at which the caller's sleep ends
    retries,      \* the local retries of send
    response,     \* the local response of send
    load,         \* history: the heaviest recent window of acquisitions
    acquired_now, \* history: successful acquisitions at this clock value
    took,         \* history: tokens consumed by the call in progress
    nsleeps,      \* history: sleeps of the acquire loop in this call,
                  \*   counted up to MaxTime + 1
    view,         \* history: what this acquire call found: "token", "empty"
                  \*   at its start, "raced" once another caller took a token
    beaten,       \* history: another caller took a token after this one's
                  \*   get_wait_time returned 0, before its try_acquire ran
    sends,        \* history: underlying sends attempted by this send call
    waits,        \* history: the backoff sleeps of this send call
    all_plain,    \* history: every response so far was a 429 with no header
    faulted,      \* history: the underlying send raised a transport fault
    _limiters,    \* RateLimiterRegistry._limiters: service key -> bucket
    _configs,     \* RateLimiterRegistry._configs: service key -> policy
    heap,         \* the TokenBuckets the registry constructed, by identity
    reg,          \* the arguments and locals of each caller's registry call
    issued,       \* history: per key, the buckets built and handed out
                  \*   since the last configure or reset touched the key
    cls,          \* the class RateLimiterRegistry: _instance (0 for None),
                  \*   lock (the holder of cls._lock), attrs (the attributes
                  \*   set on the instance), and as history made (instances
                  \*   created), inits (assignments of each map) and refs
                  \*   (the instance each caller's last construction returned)
    adapters,     \* the RateLimitedAdapters configure_rate_limiting built, by
                  \*   identity: rate_limiter, config and, as history, the
                  \*   service key they were built for
    mounts,       \* per session, the adapter mounted for each scheme (0: the
                  \*   session's own default adapter)
    environ,      \* os.environ
    resolved      \* the last get_config_from_env call made on its own: its
                  \*   argument and its result

bucket_vars == <<bucket, lock, async_lock, alock, adapter>>
call_vars == <<pc, top, state, ret>>
local_vars == <<wait_time, wake, retries, response>>
acquire_hist == <<load, acquired_now, took, nsleeps, view, beaten>>
send_hist == <<sends, waits, all_plain, faulted>>
mount_vars == <<adapters, mounts>>
env_vars == <<environ, resolved>>
registry_vars == <<_limiters, _configs, heap, reg, issued, cls, mount_vars,
                   env_vars>>
vars == <<clock, bucket_vars, call_vars, local_vars, acquire_hist, send_hist,
          registry_vars>>

\* The bucket and the adapter standing by in the specifications that do not
\* use them
StandbyConfig == Finite(ResolveEnv(FixedEnviron, NoName))

\* get_config_from_env(service_name), on the environment of the process
get_config_from_env(service_name) == ResolveEnv(environ, service_name)

\* The same policy in the form the buckets compute with
EnvPolicy(service_name) == Finite(get_config_from_env(service_name))

\* The sessions configure_rate_limiting is called on
Sessions == 1..NumSessions
NoAdapter == 0
DefaultMounts == [https |-> NoAdapter, http |-> NoAdapter]

\* The class with its one instance constructed, and before any construction
Attributes == {"_limiters", "_configs"}
Constructed ==
    [_instance |-> 1, lock |-> NoThread, attrs |-> Attributes, made |-> 1,
     inits |-> [a \in Attributes |-> 1], refs |-> [t \in Threads |-> 1]]
Unconstructed ==
    [_instance |-> 0, lock |-> NoThread, attrs |-> {}, made |-> 0,
     inits |-> [a \in Attributes |-> 0], refs |-> [t \in Threads |-> 0]]

\* No get_config_from_env call yet
NoResolution ==
    [asked |-> FALSE, service_name |-> NoName,
     config |-> RateLimitConfigNew(None, None, None, None)]

NoResponse == [status_code |-> 0, retry_after |-> Absent]

\* The maps of a registry just constructed or just reset, no adapter built,
\* every session as requests.Session() leaves it
InitMaps ==
    /\ _limiters = [k \in DictKeys |-> NoBucket]
    /\ _configs = [k \in DictKeys |-> NoPolicy]
    /\ heap = <<>>
    /\ reg = [t \in Threads |-> NoRegistryCall]
    /\ issued = [k \in DictKeys |-> NothingIssued]
    /\ adapters = <<>>
    /\ mounts = [s \in Sessions |-> DefaultMounts]
    /\ resolved = NoResolution

\* The registry just constructed (RateLimiterRegistry.__new__), or just
\* reset, in the fixed environment
InitRegistry ==
    /\ InitMaps
    /\ cls = Constructed
    /\ environ = FixedEnviron

\* The callers' state before any call, shared by every specification
InitThreads ==
    /\ clock = 0
    /\ lock = NoThread
    /\ async_lock = "None"
    /\ alock = [made |-> 0, mine |-> [t \in Threads |-> 0]]
    /\ pc = [t \in Threads |-> "idle"]
    /\ top = [t \in Threads |-> "none"]
    /\ state = [t \in Threads |-> "none"]
    /\ ret = [t \in Threads |-> None]
    /\ wait_time = [t \in Threads |-> 0]
    /\ wake = [t \in Threads |-> 0]
    /\ retries = [t \in Threads |-> 0]
    /\ response = [t \in Threads |-> NoResponse]
    /\ load = 0
    /\ acquired_now = 0
    /\ took = [t \in Threads |-> 0]
    /\ nsleeps = [t \in Threads |-> 0]
    /\ view = [t \in Threads |-> "none"]
    /\ beaten = [t \in Threads |-> FALSE]
    /\ sends = [t \in Threads |-> 0]
    /\ waits = [t \in Threads |-> <<>>]
    /\ all_plain = [t \in Threads |-> TRUE]
    /\ faulted = [t \in Threads |-> FALSE]

\* The callers and the registry before any call
InitCallers == InitThreads /\ InitRegistry

\* One bucket, just constructed from a policy of the data model
Init ==
    /\ InitCallers
    /\ \E config \in BucketConfigs :
        /\ bucket = TokenBucket(config, 0)
        /\ adapter = [config |-> config]

\* The history `load`.  Write N(s, t) for the number of successful
\* acquisitions at clock values s..t.  load is the greatest value, over the
\* window starts s <= clock, of
\*     N(s, clock) * One - requests_per_second * (clock - s),
\* kept from step to step: a tick lengthens every window by one (and opens
\* the empty window at the new clock value), an acquisition adds One to
\* every window ending now.  It reads the clock and the acquisitions only,
\* never the bucket's tokens.
LoadAfterTick == IF load > bucket.config.requests_per_second
                 THEN load - bucket.config.requests_per_second ELSE 0
LoadAfterAcquire(got) == IF got THEN load + One ELSE load

\* time.monotonic() advances
Tick ==
    /\ clock < MaxTime
    /\ clock' = clock + 1
    /\ load' = LoadAfterTick
    /\ acquired_now' = 0
    /\ UNCHANGED <<registry_vars, bucket_vars, call_vars, local_vars, took,
                   nsleeps, view, beaten, send_hist>>

\* What an acquire call finds as it starts
ViewAtStart(op) ==
    IF op \in {"acquire", "acquire_async"}
    THEN IF _refill(bucket, clock).tokens >= One THEN "token" ELSE "empty"
    ELSE "none"

\* A caller enters a public operation: the histories of its call start afresh
Enter(t, op, at) ==
    /\ pc[t] = "idle"
    /\ pc' = [pc EXCEPT ![t] = at]
    /\ top' = [top EXCEPT ![t] = op]
    /\ state' = [state EXCEPT ![t] = "running"]
    /\ ret' = [ret EXCEPT ![t] = None]
    /\ took' = [took EXCEPT ![t] = 0]
    /\ nsleeps' = [nsleeps EXCEPT ![t] = 0]
    /\ view' = [view EXCEPT ![t] = ViewAtStart(op)]
    /\ beaten' = [beaten EXCEPT ![t] = FALSE]
    /\ sends' = [sends EXCEPT ![t] = 0]
    /\ waits' = [waits EXCEPT ![t] = <<>>]
    /\ all_plain' = [all_plain EXCEPT ![t] = TRUE]
    /\ faulted' = [faulted EXCEPT ![t] = FALSE]
    /\ retries' = [retries EXCEPT ![t] = 0]
    /\ response' = [response EXCEPT ![t] = NoResponse]
    /\ UNCHANGED <<clock, bucket_vars, wait_time, wake, load, acquired_now>>

CallGetWaitTime(t) == Enter(t, "get_wait_time", "gwt_lock") /\ UNCHANGED registry_vars
CallTryAcquire(t) == Enter(t, "try_acquire", "try_lock") /\ UNCHANGED registry_vars
CallAcquire(t) == Enter(t, "acquire", "gwt_lock") /\ UNCHANGED registry_vars
CallAcquireAsync(t) == Enter(t, "acquire_async", "async_enter") /\ UNCHANGED registry_vars

InAcquire(t) == top[t] \in {"acquire", "acquire_async"} /\ state[t] = "running"

\* A direct _refill() call, as the tests make it: outside the data lock, by
\* a caller that runs while nobody is inside a locked section
CallRefill(t) ==
    /\ pc[t] = "idle"
    /\ lock = NoThread
    /\ bucket' = _refill(bucket, clock)
    /\ UNCHANGED <<registry_vars, clock, lock, async_lock, alock, adapter, call_vars,
                   local_vars,
                   acquire_hist, send_hist>>

\* The data lock as it would be if `with self._lock:` never had to wait
LockAlwaysFree(holder) == TRUE

\* threading.Lock: free when no thread holds it
LockFree(holder) == holder = NoThread

\* `with self._lock:` of get_wait_time and of try_acquire
AcquireLock(t, from, to) ==
    /\ pc[t] = from
    /\ LockFree(lock)
    /\ lock' = t
    /\ pc' = [pc EXCEPT ![t] = to]
    /\ UNCHANGED <<registry_vars, clock, bucket, async_lock, alock, adapter, top,
                   state, ret,
                   local_vars, acquire_hist, send_hist>>

GwtLock(t) == AcquireLock(t, "gwt_lock", "gwt_body")
TryLock(t) == AcquireLock(t, "try_lock", "try_body")

\* The body of get_wait_time, the lock released on the way out.  Called
\* directly it returns to the caller.  In the acquire loop its value is
\* wait_time: `if wait_time <= 0` goes on to try_acquire, else
\* time.sleep(wait_time) / await asyncio.sleep(wait_time) begins.
GwtBody(t) ==
    /\ pc[t] = "gwt_body"
    /\ lock = t
    /\ LET g == get_wait_time(bucket, clock) IN
        /\ bucket' = g.bucket
        /\ lock' = NoThread
        /\ IF top[t] = "get_wait_time"
           THEN /\ pc' = [pc EXCEPT ![t] = "idle"]
                /\ state' = [state EXCEPT ![t] = "returned"]
                /\ ret' = [ret EXCEPT ![t] = Number(g.result)]
                /\ UNCHANGED <<wait_time, wake, nsleeps>>
           ELSE /\ wait_time' = [wait_time EXCEPT ![t] = g.result]
                /\ IF g.result <= 0
                   THEN /\ pc' = [pc EXCEPT ![t] = "try_lock"]
                        /\ UNCHANGED <<wake, nsleeps>>
                   ELSE /\ pc' = [pc EXCEPT ![t] = "acq_sleep"]
                        /\ wake' = [wake EXCEPT ![t] = clock + g.result]
                        /\ nsleeps' = [nsleeps EXCEPT ![t] =
                                          Min(@ + 1, MaxTime + 1)]
                /\ UNCHANGED <<state, ret>>
    /\ beaten' = [beaten EXCEPT ![t] = FALSE]
    /\ UNCHANGED <<registry_vars, clock, async_lock, alock, adapter, top, retries,
                   response,
                   load, acquired_now, took, view, send_hist>>

\* The sleep of the acquire loop ends, no sooner than asked, and the loop
\* goes round
AcqWake(t) ==
    /\ pc[t] = "acq_sleep"
    /\ clock >= wake[t]
    /\ pc' = [pc EXCEPT ![t] = "gwt_lock"]
    /\ wake' = [wake EXCEPT ![t] = 0]
    /\ wait_time' = [wait_time EXCEPT ![t] = 0]
    /\ UNCHANGED <<registry_vars, clock, bucket_vars, top, state, ret, retries, response,
                   acquire_hist, send_hist>>

\* The loop as it would be if acquire ignored what try_acquire returned
AfterTryIgnoringResult(t, got) ==
    CASE top[t] = "try_acquire" -> "idle"
      [] top[t] \in {"acquire", "acquire_async"} -> "idle"
      [] OTHER -> "send_io"

\* Where a caller goes when the try_acquire it made returns `got`
AfterTry(t, got) ==
    CASE top[t] = "try_acquire" -> "idle"
      [] top[t] \in {"acquire", "acquire_async"} ->
            IF got THEN "idle" ELSE "gwt_lock"
      [] OTHER -> IF got THEN "send_io" ELSE "gwt_lock"

\* acquire_async as it would be if it returned still holding its async lock
AsyncLockKept(op, got, held, current) == held

\* `async with self._get_async_lock():` is left when acquire_async returns:
\* the lock object it was on is released, and that shows in _async_lock when
\* it is the object _async_lock refers to (`current`)
AsyncLockAfter(op, got, held, current) ==
    IF op = "acquire_async" /\ got /\ current THEN "unlocked" ELSE held

\* The body of try_acquire, the lock released on the way out.  Called
\* directly it returns to the caller; in the acquire loop a True ends the
\* loop (acquire returns, acquire_async leaves its async lock) and a False
\* goes round it.
TryBody(t) ==
    /\ pc[t] = "try_body"
    /\ lock = t
    /\ LET a == try_acquire(bucket, clock)
           finished == AfterTry(t, a.result) = "idle" IN
        /\ bucket' = a.bucket
        /\ lock' = NoThread
        /\ pc' = [pc EXCEPT ![t] = AfterTry(t, a.result)]
        /\ state' = [state EXCEPT ![t] = IF finished THEN "returned" ELSE @]
        /\ ret' = [ret EXCEPT ![t] =
                     IF top[t] = "try_acquire" THEN Boolean(a.result) ELSE @]
        /\ async_lock' = AsyncLockAfter(top[t], a.result, async_lock,
                                        alock.mine[t] = alock.made)
        /\ alock' = [alock EXCEPT !.mine[t] = IF a.result THEN 0 ELSE @]
        /\ took' = [took EXCEPT ![t] = IF a.result THEN @ + 1 ELSE @]
        /\ load' = LoadAfterAcquire(a.result)
        /\ acquired_now' = IF a.result THEN acquired_now + 1 ELSE acquired_now
        /\ view' = [u \in Threads |->
                      IF a.result /\ u # t /\ InAcquire(u)
                      THEN "raced" ELSE view[u]]
        /\ beaten' = [u \in Threads |->
                        IF u = t THEN ~a.result /\ beaten[t]
                        ELSE IF a.result /\ pc[u] = "try_lock"
                                /\ top[u] # "try_acquire"
                        THEN TRUE ELSE beaten[u]]
        /\ wait_time' = [wait_time EXCEPT ![t] = 0]
    /\ UNCHANGED <<registry_vars, clock, adapter, top, wake, retries, response, nsleeps,
                   send_hist>>

\* The async lock as it would be if `async with` never had to wait
AsyncLockAlwaysFree(l) == TRUE

\* asyncio.Lock: free when it is not held (or not yet created)
AsyncLockFree(l) == l \in {"None", "unlocked"}

\* acquire_async: `async with self._get_async_lock():` creates the lock on
\* first use and takes it when it is free
AsyncEnter(t) ==
    /\ pc[t] = "async_enter"
    /\ AsyncLockFree(async_lock)
    /\ async_lock' = "locked"
    /\ LET made == IF async_lock = "None" THEN alock.made + 1 ELSE alock.made
       IN  alock' = [made |-> made, mine |-> [alock.mine EXCEPT ![t] = made]]
    /\ pc' = [pc EXCEPT ![t] = "gwt_lock"]
    /\ UNCHANGED <<registry_vars, clock, bucket, lock, adapter, top, state, ret,
                   local_vars, acquire_hist, send_hist>>

\* acquire_async called on threads of their own (an event loop each): a
\* thread may be switched out between any two statements of
\* _get_async_lock, which are the steps here.
CallAcquireAsyncOnThread(t) ==
    Enter(t, "acquire_async", "gal_check") /\ UNCHANGED registry_vars

\* What a step of _get_async_lock and of `async with` leaves alone
AsyncFrame ==
    UNCHANGED <<registry_vars, clock, bucket, lock, adapter, top, state, ret,
                local_vars, acquire_hist, send_hist>>

\* `if self._async_lock is None`
GalCheck(t) ==
    /\ pc[t] = "gal_check"
    /\ pc' = [pc EXCEPT ![t] = IF async_lock = "None"
                               THEN "gal_create" ELSE "gal_return"]
    /\ UNCHANGED <<async_lock, alock>>
    /\ AsyncFrame

\* self._async_lock = asyncio.Lock(): a new lock object, not held, takes the
\* place of whatever _async_lock referred to
GalCreate(t) ==
    /\ pc[t] = "gal_create"
    /\ alock' = [alock EXCEPT !.made = @ + 1]
    /\ async_lock' = "unlocked"
    /\ pc' = [pc EXCEPT ![t] = "gal_return"]
    /\ AsyncFrame

\* return self._async_lock
GalReturn(t) ==
    /\ pc[t] = "gal_return"
    /\ alock' = [alock EXCEPT !.mine[t] = alock.made]
    /\ pc' = [pc EXCEPT ![t] = "async_with"]
    /\ UNCHANGED async_lock
    /\ AsyncFrame

\* Lock object i is held: a caller is inside its `async with` on it
Held(i) ==
    \E u \in Threads :
        /\ alock.mine[u] = i
        /\ top[u] = "acquire_async"
        /\ pc[u] \in {"gwt_lock", "gwt_body", "acq_sleep", "try_lock",
                      "try_body"}

\* `async with` on the lock object returned: it is taken when it is free
AsyncWith(t) ==
    /\ pc[t] = "async_with"
    /\ ~Held(alock.mine[t])
    /\ async_lock' = IF alock.mine[t] = alock.made THEN "locked"
                     ELSE async_lock
    /\ pc' = [pc EXCEPT ![t] = "gwt_lock"]
    /\ UNCHANGED alock
    /\ AsyncFrame


\* The steps of acquire, as acquire, acquire_async and send run them
AcquireStep(t) ==
    \/ GwtLock(t)
    \/ GwtBody(t)
    \/ AcqWake(t)
    \/ TryLock(t)
    \/ TryBody(t)

BucketStep(t) ==
    \/ AcquireStep(t)
    \/ AsyncEnter(t)

AsyncThreadStep(t) ==
    \/ GalCheck(t)
    \/ GalCreate(t)
    \/ GalReturn(t)
    \/ AsyncWith(t)
    \/ AcquireStep(t)

Next ==
    \/ Tick
    \/ \E t \in Threads :
        \/ CallGetWaitTime(t)
        \/ CallTryAcquire(t)
        \/ CallAcquire(t)
        \/ CallAcquireAsync(t)
        \/ CallRefill(t)
        \/ BucketStep(t)

Spec == Init /\ [][Next]_vars

\* Threads, each with an event loop of its own, call acquire_async on one
\* bucket
NextAsyncThreads ==
    \/ Tick
    \/ \E t \in Threads :
        \/ CallAcquireAsyncOnThread(t)
        \/ AsyncThreadStep(t)

SpecAsyncThreads == Init /\ [][NextAsyncThreads]_vars

\* ------------------------------------------------- RateLimitedAdapter.send
\* send begins: retries = 0, then self.rate_limiter.acquire()
CallSend(t) == Enter(t, "send", "gwt_lock") /\ UNCHANGED registry_vars

\* The call of thread t ends: its locals go out of scope
Finish(t, how, value) ==
    /\ pc' = [pc EXCEPT ![t] = "idle"]
    /\ state' = [state EXCEPT ![t] = how]
    /\ ret' = [ret EXCEPT ![t] = value]
    /\ response' = [response EXCEPT ![t] = NoResponse]

\* send as it would be if it caught the fault and backed off like a 429
OnFaultRetried(t) ==
    /\ pc' = [pc EXCEPT ![t] = "send_sleep"]
    /\ retries' = [retries EXCEPT ![t] = @ + 1]
    /\ wait_time' = [wait_time EXCEPT ![t] = adapter.config.backoff_base]
    /\ wake' = [wake EXCEPT ![t] = clock + adapter.config.backoff_base]
    /\ waits' = [waits EXCEPT ![t] = Append(@, adapter.config.backoff_base)]
    /\ UNCHANGED <<state, ret, response, all_plain>>

\* A transport-level fault of super().send(...) (a connection error, a
\* timeout): send has no try/except, so it leaves send as it was raised
OnFault(t) ==
    /\ Finish(t, "raised", Exception("ConnectionError"))
    /\ UNCHANGED <<retries, wait_time, wake, waits, all_plain>>

\* super().send(...): the transport answers with a response of those the
\* remote side is given, or raises
SuperSendFrom(t, answers) ==
    /\ pc[t] = "send_io"
    /\ sends' = [sends EXCEPT ![t] = @ + 1]
    /\ \/ \E r \in answers :
            /\ response' = [response EXCEPT ![t] = r]
            /\ pc' = [pc EXCEPT ![t] = "send_check"]
            /\ UNCHANGED <<state, ret, retries, wait_time, wake, waits,
                           all_plain, faulted>>
       \/ /\ faulted' = [faulted EXCEPT ![t] = TRUE]
          /\ OnFault(t)
    /\ UNCHANGED <<registry_vars, clock, bucket_vars, top, acquire_hist>>

SuperSend(t) == SuperSendFrom(t, Responses)

\* The test as it would be if only successes were returned at once
PassesThroughBelow400(r) == r.status_code < 400

\* `if response.status_code != 429: return response`
PassesThrough(r) == r.status_code # TooManyRequests

\* The test as it would be with the bound one too high
RetriesExceededLate(n, config) == n > config.max_retries + 1

\* `if retries > self.config.max_retries`
RetriesExceeded(n, config) == n > config.max_retries

\* The counter as it would be if it were an attribute of the adapter, one
\* for all the calls
CountRetryShared(rs, t) == [u \in DOMAIN rs |-> rs[t] + 1]

\* `retries += 1`: retries is a local of the send call
CountRetry(rs, t) == [rs EXCEPT ![t] = @ + 1]

\* send, from `if response.status_code != 429` to time.sleep(wait_time)
HandleResponse(t) ==
    /\ pc[t] = "send_check"
    /\ LET r == response[t]
           n == retries[t] + 1
           d == SendWaitTime(adapter.config, r, n)
       IN  IF PassesThrough(r)
           THEN /\ Finish(t, "returned", Response(r))
                /\ UNCHANGED <<retries, wait_time, wake, waits, all_plain>>
           ELSE /\ retries' = CountRetry(retries, t)
                /\ all_plain' = [all_plain EXCEPT ![t] =
                                   @ /\ r.retry_after = Absent]
                /\ IF RetriesExceeded(n, adapter.config)
                   THEN /\ Finish(t, "returned", Response(r))
                        /\ UNCHANGED <<wait_time, wake, waits>>
                   ELSE IF SleepError(d) # "None"
                   THEN /\ Finish(t, "raised", Exception(SleepError(d)))
                        /\ UNCHANGED <<wait_time, wake, waits>>
                   ELSE /\ pc' = [pc EXCEPT ![t] = "send_sleep"]
                        /\ wait_time' = [wait_time EXCEPT ![t] = d.v]
                        /\ wake' = [wake EXCEPT ![t] = clock + d.v]
                        /\ waits' = [waits EXCEPT ![t] = Append(@, d.v)]
                        /\ UNCHANGED <<state, ret, response>>
    /\ UNCHANGED <<registry_vars, clock, bucket_vars, top, acquire_hist, sends, faulted>>

\* The loop as it would be if the resend did not go through acquire again
SendWakeWithoutAcquire(t) ==
    /\ pc[t] = "send_sleep"
    /\ clock >= wake[t]
    /\ pc' = [pc EXCEPT ![t] = "send_io"]
    /\ wake' = [wake EXCEPT ![t] = 0]
    /\ wait_time' = [wait_time EXCEPT ![t] = 0]
    /\ UNCHANGED <<registry_vars, clock, bucket_vars, top, state, ret, retries, response,
                   acquire_hist, send_hist>>

\* The backoff sleep ends, no sooner than asked, and the loop goes round to
\* self.rate_limiter.acquire()
SendWake(t) ==
    /\ pc[t] = "send_sleep"
    /\ clock >= wake[t]
    /\ pc' = [pc EXCEPT ![t] = "gwt_lock"]
    /\ wake' = [wake EXCEPT ![t] = 0]
    /\ wait_time' = [wait_time EXCEPT ![t] = 0]
    /\ UNCHANGED <<registry_vars, clock, bucket_vars, top, state, ret, retries, response,
                   acquire_hist, send_hist>>

\* One bucket and one adapter on it, as configure_rate_limiting and the
\* tests build them: RateLimitedAdapter(bucket, config)
InitSend ==
    /\ InitCallers
    /\ \E config \in RateLimitConfig :
        /\ bucket = TokenBucket(config, 0)
        /\ adapter = [config |-> config]

\* The senders call send; the other callers take tokens from the bucket
\* they share with them
NextSend ==
    \/ Tick
    \/ \E t \in Senders :
        \/ CallSend(t)
        \/ SuperSend(t)
        \/ HandleResponse(t)
        \/ SendWake(t)
    \/ \E t \in Threads \ Senders : CallTryAcquire(t)
    \/ \E t \in Threads : AcquireStep(t)

SpecSend == InitSend /\ [][NextSend]_vars

\* Every caller calls send, on one adapter: the policy with the most
\* retries, the largest and fastest bucket and the shortest backoff
SendersConfigs ==
    {c \in RateLimitConfig : /\ c.max_retries = MaxMaxRetries
                             /\ c.burst_capacity = MaxBurstCapacity
                             /\ c.requests_per_second = One
                             /\ c.backoff_base = 1}
InitSenders ==
    /\ InitCallers
    /\ \E config \in SendersConfigs :
        /\ bucket = TokenBucket(config, 0)
        /\ adapter = [config |-> config]

\* The answers of the remote side there: a success, a 429 without
\* Retry-After and a 429 that asks for an immediate retry
FewResponses ==
    {r \in Responses :
        \/ r.status_code = 200
        \/ r.status_code = TooManyRequests /\ r.retry_after \in {Absent, <<"0">>}}

NextSenders ==
    \/ Tick
    \/ \E t \in Threads :
        \/ CallSend(t)
        \/ SuperSendFrom(t, FewResponses)
        \/ HandleResponse(t)
        \/ SendWake(t)
        \/ AcquireStep(t)

SpecSenders == InitSenders /\ [][NextSenders]_vars


\* ------------------------------------------------ time beyond MaxTime
\* The clock advances past MaxTime.  The model keeps now at MaxTime and moves
\* the time origin instead: every clock value held in the state becomes one
\* less.  A last_refill older than burst_capacity ticks is kept at that age:
\* requests_per_second is at least one token-unit per tick, so a refill from
\* there fills the bucket whatever it held, as it would from any older time.
Max(a, b) == IF a >= b THEN a ELSE b
OldestLastRefill == MaxTime - bucket.config.burst_capacity * One
TickOn ==
    /\ clock = MaxTime
    /\ bucket' = [bucket EXCEPT
                     !.last_refill = Max(@ - 1, Min(@, OldestLastRefill))]
    /\ wake' = [t \in Threads |-> Max(wake[t] - 1, 0)]
    /\ load' = LoadAfterTick
    /\ acquired_now' = 0
    /\ UNCHANGED <<registry_vars, clock, lock, async_lock, alock, adapter,
                   call_vars,
                   wait_time, retries, response, took, nsleeps, view,
                   beaten, send_hist>>

\* Finitely many calls: callers begin calls only while the clock is within
\* LastCallTime; the calls then in progress run on for as long as they take
CallsOpen == clock <= LastCallTime

\* Threads and coroutines contend for one bucket in acquire and acquire_async
NextLive ==
    \/ Tick
    \/ TickOn
    \/ \E t \in Threads :
        \/ CallsOpen /\ CallAcquire(t)
        \/ CallsOpen /\ CallAcquireAsync(t)
        \/ BucketStep(t)

\* What a step of the clock can change, and what every step of a caller
\* changes
time_vars == <<clock, bucket, wake, load, acquired_now>>

\* The clock advances, and every caller that can take a step of its call
\* is scheduled in the end (threads by the OS, coroutines by the event
\* loop, sleeps by the timers)
SpecLive ==
    /\ Init
    /\ [][NextLive]_vars
    /\ WF_time_vars(Tick \/ TickOn)
    /\ \A t \in Threads : WF_pc(BucketStep(t))

\* --------------------------------------------- cancelling acquire_async
\* A coroutine can be cancelled where it is suspended: at the `async with`,
\* waiting for the async lock (or not yet started), and at
\* `await asyncio.sleep(wait_time)`.  Everything between two awaits runs
\* without the event loop.
Suspended(t) ==
    /\ top[t] = "acquire_async"
    /\ pc[t] \in {"async_enter", "acq_sleep"}

\* `async with` as it would be if a CancelledError passing through it left
\* the lock held
AsyncLockKeptOnCancel(at, held, current) == held

\* The async lock after a CancelledError was thrown into the coroutine at
\* `at`.  From the sleep it passes through `async with`, whose __aexit__
\* releases the lock; at the `async with` itself the lock was not taken
\* and Lock.acquire() drops the waiter.
AsyncLockAfterCancel(at, held, current) ==
    IF at = "acq_sleep" /\ current THEN "unlocked" ELSE held

\* task.cancel(): CancelledError is raised in the coroutine where it is
\* suspended and, nothing in acquire_async catching it, out of the call
Cancel(t) ==
    /\ Suspended(t)
    /\ async_lock' = AsyncLockAfterCancel(pc[t], async_lock,
                                          alock.mine[t] = alock.made)
    /\ alock' = [alock EXCEPT !.mine[t] = 0]
    /\ Finish(t, "raised", Exception("CancelledError"))
    /\ wait_time' = [wait_time EXCEPT ![t] = 0]
    /\ wake' = [wake EXCEPT ![t] = 0]
    /\ UNCHANGED <<registry_vars, clock, bucket, lock, adapter, top, retries,
                   acquire_hist, send_hist>>

\* Coroutines of one event loop call acquire_async on one bucket, and any
\* of them may be cancelled while it is suspended
NextCancel ==
    \/ Tick
    \/ TickOn
    \/ \E t \in Threads :
        \/ CallsOpen /\ CallAcquireAsync(t)
        \/ BucketStep(t)
        \/ Cancel(t)

\* The clock advances and the event loop runs every coroutine that can go
\* on; nothing says that a cancellation ever comes
SpecCancel ==
    /\ Init
    /\ [][NextCancel]_vars
    /\ WF_time_vars(Tick \/ TickOn)
    /\ \A t \in Threads : WF_pc(BucketStep(t))

\* The policies RateLimitConfig and TokenBucket accept with a
\* requests_per_second and a backoff_base of the data model: neither
\* constructor validates, so burst_capacity 0 is among them
AcceptedConfigs ==
    [requests_per_second : RpsChoices,
     burst_capacity : 0..MaxBurstCapacity,
     backoff_base : 1..MaxBackoffBase,
     max_retries : 0..MaxMaxRetries]

InitSendLive ==
    /\ InitCallers
    /\ \E config \in AcceptedConfigs :
        /\ bucket = TokenBucket(config, 0)
        /\ adapter = [config |-> config]

SendStep(t) ==
    \/ SuperSend(t)
    \/ HandleResponse(t)
    \/ SendWake(t)
    \/ AcquireStep(t)

NextSendLive ==
    \/ Tick
    \/ TickOn
    \/ \E t \in Senders :
        \/ CallsOpen /\ CallSend(t)
        \/ SendStep(t)
    \/ \E t \in Threads \ Senders :
        \/ CallsOpen /\ CallTryAcquire(t)
        \/ AcquireStep(t)

\* The clock advances, every underlying send returns (or raises), and every
\* caller that can take a step is scheduled in the end
SpecSendLive ==
    /\ InitSendLive
    /\ [][NextSendLive]_vars
    /\ WF_time_vars(Tick \/ TickOn)
    /\ \A t \in Threads : WF_pc(SendStep(t))


\* ------------------------------------------ RateLimiterRegistry operations
\* The registry methods take no lock: a thread may be switched out between
\* any two of their dict operations, which are the steps here.
RegistryPcs == {"gl_check", "gl_config", "gl_store", "gl_return",
                "cf_store", "cf_check", "cf_replace",
                "rs_limiters", "rs_configs"}
InRegistry(t) == pc[t] \in RegistryPcs

\* The run constructs MaxBuckets buckets at most.  A call that may come to
\* construct one begins only while one is left for it and for each such
\* call in progress.
CanConstruct == Len(heap) < MaxBuckets
Builders == {"gl_check", "gl_config", "gl_store", "cf_store", "cf_check",
             "cf_replace"}
MayConstruct ==
    Len(heap) + Cardinality({u \in Threads : pc[u] \in Builders}) < MaxBuckets

\* What a step of a call on the registry leaves alone in its caller and in
\* the bucket of the other specifications
CallerFrame ==
    UNCHANGED <<clock, bucket_vars, top, wait_time, wake, retries,
                acquire_hist, send_hist>>

\* What a step of a registry method leaves alone
process_vars == <<cls, mount_vars, env_vars>>
RegistryFrame == CallerFrame /\ UNCHANGED process_vars

\* self._limiters, self._configs: reading an attribute the instance does
\* not have yet raises AttributeError
HasAttr(a) == a \in cls.attrs

\* A configure or a reset touches key k: what was built and handed out for
\* it before no longer counts
Touched(k) == [issued EXCEPT ![k] = NothingIssued]

\* get_limiter(service_name) is called
CallGetLimiter(t, service_name) ==
    /\ MayConstruct \/ _limiters[lower(service_name)] # NoBucket
    /\ Enter(t, "get_limiter", "gl_check")
    /\ reg' = [reg EXCEPT ![t] =
                 [NoRegistryCall EXCEPT !.service_name = service_name]]
    /\ UNCHANGED <<_limiters, _configs, heap, issued, process_vars>>

\* The test as it would be if get_limiter always built a bucket
AfterCheckAlwaysBuilds(limiters, key) == "gl_config"

\* `if service_key not in self._limiters`
AfterCheck(limiters, key) ==
    IF limiters[key] = NoBucket THEN "gl_config" ELSE "gl_return"

\* service_key = service_name.lower(); if service_key not in self._limiters
GlCheck(t) ==
    /\ pc[t] = "gl_check"
    /\ IF HasAttr("_limiters")
       THEN LET service_key == lower(reg[t].service_name) IN
            /\ reg' = [reg EXCEPT ![t].service_key = service_key]
            /\ pc' = [pc EXCEPT ![t] = AfterCheck(_limiters, service_key)]
            /\ UNCHANGED <<state, ret, response>>
       ELSE /\ Finish(t, "raised", Exception("AttributeError"))
            /\ reg' = [reg EXCEPT ![t] = NoRegistryCall]
    /\ UNCHANGED <<_limiters, _configs, heap, issued>>
    /\ RegistryFrame

\* The lookup as it would be if the stored policy were ignored
PolicyFromEnvOnly(configs, service_key) == EnvPolicy(service_key)

\* self._configs.get(service_key, get_config_from_env(service_key)): the
\* default is an argument, evaluated whether or not the key is stored
PolicyFor(configs, service_key) ==
    DictGet(configs, service_key, EnvPolicy(service_key))

\* config = self._configs.get(service_key, get_config_from_env(service_key))
GlConfig(t) ==
    /\ pc[t] = "gl_config"
    /\ IF HasAttr("_configs")
       THEN /\ reg' = [reg EXCEPT
                         ![t].config = PolicyFor(_configs, reg[t].service_key),
                         ![t].env_read = TRUE]
            /\ pc' = [pc EXCEPT ![t] = "gl_store"]
            /\ UNCHANGED <<state, ret, response>>
       ELSE /\ Finish(t, "raised", Exception("AttributeError"))
            /\ reg' = [reg EXCEPT ![t] = NoRegistryCall]
    /\ UNCHANGED <<_limiters, _configs, heap, issued>>
    /\ RegistryFrame

\* self._limiters[service_key] = TokenBucket(config)
GlStore(t) ==
    /\ pc[t] = "gl_store"
    /\ CanConstruct
    /\ LET k == reg[t].service_key IN
        /\ heap' = Append(heap, TokenBucket(reg[t].config, clock))
        /\ _limiters' = DictSet(_limiters, k, Len(heap) + 1)
        /\ issued' = [issued EXCEPT ![k].made = @ + 1]
    /\ pc' = [pc EXCEPT ![t] = "gl_return"]
    /\ UNCHANGED <<state, ret, response, _configs, reg>>
    /\ RegistryFrame

\* return self._limiters[service_key]: the dict is read again, and a missing
\* key raises KeyError
\* The caller is configure_rate_limiting, which goes on with the bucket
\* (rate_limiter = registry.get_limiter(service_name)); an exception of
\* get_limiter is not caught there
GlReturn(t) ==
    /\ pc[t] = "gl_return"
    /\ LET k == reg[t].service_key IN
        IF _limiters[k] = NoBucket
        THEN /\ Finish(t, "raised", Exception("KeyError"))
             /\ reg' = [reg EXCEPT ![t] = NoRegistryCall]
             /\ UNCHANGED issued
        ELSE /\ issued' = [issued EXCEPT
                              ![k].handed = @ \cup {_limiters[k]},
                              ![k].names = @ \cup {reg[t].service_name}]
             /\ IF top[t] = "configure_rate_limiting"
                THEN /\ pc' = [pc EXCEPT ![t] = "crl_config"]
                     /\ reg' = [reg EXCEPT ![t].rate_limiter = _limiters[k]]
                     /\ UNCHANGED <<state, ret, response>>
                ELSE /\ Finish(t, "returned", Bucket(_limiters[k]))
                     /\ reg' = [reg EXCEPT ![t] = NoRegistryCall]
    /\ UNCHANGED <<_limiters, _configs, heap>>
    /\ RegistryFrame

\* configure(service_name, config) is called
CallConfigure(t, service_name, config) ==
    /\ MayConstruct
    /\ Enter(t, "configure", "cf_store")
    /\ reg' = [reg EXCEPT ![t] =
                 [NoRegistryCall EXCEPT !.service_name = service_name,
                                        !.config = config]]
    /\ UNCHANGED <<_limiters, _configs, heap, issued, process_vars>>

\* service_key = service_name.lower(); self._configs[service_key] = config
CfStore(t) ==
    /\ pc[t] = "cf_store"
    /\ IF HasAttr("_configs")
       THEN LET service_key == lower(reg[t].service_name) IN
            /\ reg' = [reg EXCEPT ![t].service_key = service_key]
            /\ _configs' = DictSet(_configs, service_key, reg[t].config)
            /\ issued' = Touched(service_key)
            /\ pc' = [pc EXCEPT ![t] = "cf_check"]
            /\ UNCHANGED <<state, ret, response>>
       ELSE /\ Finish(t, "raised", Exception("AttributeError"))
            /\ reg' = [reg EXCEPT ![t] = NoRegistryCall]
            /\ UNCHANGED <<_configs, issued>>
    /\ UNCHANGED <<_limiters, heap>>
    /\ RegistryFrame

\* configure as it would be if it left an existing bucket in place
ReplacesNothing(limiters, key) == FALSE

\* `if service_key in self._limiters`
ReplacesLimiter(limiters, key) == limiters[key] # NoBucket

\* `if service_key in self._limiters`, and the return when it is not
CfCheck(t) ==
    /\ pc[t] = "cf_check"
    /\ IF ReplacesLimiter(_limiters, reg[t].service_key)
       THEN /\ pc' = [pc EXCEPT ![t] = "cf_replace"]
            /\ UNCHANGED <<state, ret, response>>
            /\ UNCHANGED reg
       ELSE /\ Finish(t, "returned", None)
            /\ reg' = [reg EXCEPT ![t] = NoRegistryCall]
    /\ issued' = Touched(reg[t].service_key)
    /\ UNCHANGED <<_limiters, _configs, heap>>
    /\ RegistryFrame

\* self._limiters[service_key] = TokenBucket(config), and the return
CfReplace(t) ==
    /\ pc[t] = "cf_replace"
    /\ CanConstruct
    /\ heap' = Append(heap, TokenBucket(reg[t].config, clock))
    /\ _limiters' = DictSet(_limiters, reg[t].service_key, Len(heap) + 1)
    /\ issued' = Touched(reg[t].service_key)
    /\ Finish(t, "returned", None)
    /\ reg' = [reg EXCEPT ![t] = NoRegistryCall]
    /\ UNCHANGED _configs
    /\ RegistryFrame

\* reset() is called
CallReset(t) ==
    /\ Enter(t, "reset", "rs_limiters")
    /\ reg' = [reg EXCEPT ![t] = NoRegistryCall]
    /\ UNCHANGED <<_limiters, _configs, heap, issued, process_vars>>

\* dict.clear() as it would be if it removed nothing
ClearNothing(d, absent) == d

\* dict.clear(): no key is left
clear(d, absent) == [k \in DOMAIN d |-> absent]

\* self._limiters.clear()
RsLimiters(t) ==
    /\ pc[t] = "rs_limiters"
    /\ _limiters' = clear(_limiters, NoBucket)
    /\ issued' = [k \in DictKeys |-> NothingIssued]
    /\ pc' = [pc EXCEPT ![t] = "rs_configs"]
    /\ UNCHANGED <<state, ret, response, _configs, heap, reg>>
    /\ RegistryFrame

\* self._configs.clear(), and the return
RsConfigs(t) ==
    /\ pc[t] = "rs_configs"
    /\ _configs' = clear(_configs, NoPolicy)
    /\ issued' = [k \in DictKeys |-> NothingIssued]
    /\ Finish(t, "returned", None)
    /\ UNCHANGED <<_limiters, heap, reg>>
    /\ RegistryFrame

\* A caller uses the bucket its last get_limiter returned: try_acquire on
\* that instance, under the instance's data lock
UseLimiter(t) ==
    /\ pc[t] = "idle"
    /\ top[t] = "get_limiter"
    /\ state[t] = "returned"
    /\ heap' = [heap EXCEPT ![ret[t].v] = try_acquire(@, clock).bucket]
    /\ UNCHANGED <<call_vars, response, _limiters, _configs, reg, issued>>
    /\ RegistryFrame

RegistryStep(t) ==
    \/ GlCheck(t)
    \/ GlConfig(t)
    \/ GlStore(t)
    \/ GlReturn(t)
    \/ CfStore(t)
    \/ CfCheck(t)
    \/ CfReplace(t)
    \/ RsLimiters(t)
    \/ RsConfigs(t)

\* A process with an empty registry; the bucket and the adapter of the
\* other specifications stand by unused
InitRegistrySpec ==
    /\ InitCallers
    /\ bucket = TokenBucket(EnvPolicy(NoName), 0)
    /\ adapter = [config |-> EnvPolicy(NoName)]

\* The registry calls, begun when `mayBegin` allows
RegistryCalls(t, mayBegin) ==
    \/ /\ mayBegin
       /\ \/ \E n \in ServiceNames : CallGetLimiter(t, n)
          \/ \E n \in ServiceNames, c \in ConfiguredPolicies :
                CallConfigure(t, n, c)
          \/ CallReset(t)
    \/ RegistryStep(t)

\* time.monotonic() advances while the registry is in use
RegistryTick == clock < MaxRegistryTime /\ Tick

\* Threads call the registry concurrently; what they do with the buckets
\* they get is left to the other specifications
NextRegistry == \E t \in Threads : RegistryCalls(t, TRUE)

SpecRegistry == InitRegistrySpec /\ [][NextRegistry]_vars

\* Callers call the registry one after another, a call beginning when no
\* other is in progress, and draw on the buckets they got as time passes
NextRegistrySeq ==
    \/ RegistryTick
    \/ \E t \in Threads :
        \/ RegistryCalls(t, \A u \in Threads : ~InRegistry(u))
        \/ UseLimiter(t)

SpecRegistrySeq == InitRegistrySpec /\ [][NextRegistrySeq]_vars

\* -------------------------------------------------- configure_rate_limiting
MountPcs == {"crl_config", "crl_adapter", "crl_http"}

\* The run builds MaxAdapters adapters at most: a call begins only while
\* one is left for it and for each call in progress
MayMount ==
    Len(adapters)
    + Cardinality({u \in Threads : top[u] = "configure_rate_limiting"
                                     /\ pc[u] # "idle"
                                     /\ reg[u].adapter = NoAdapter})
    < MaxAdapters

\* configure_rate_limiting(session, service_name) is called.  Its first
\* statement, registry = get_rate_limiter_registry(), returns the instance
\* that exists; its second is get_limiter, whose steps follow.
CallConfigureRateLimiting(t, session, service_name) ==
    /\ MayConstruct \/ _limiters[lower(service_name)] # NoBucket
    /\ MayMount
    /\ Enter(t, "configure_rate_limiting", "gl_check")
    /\ reg' = [reg EXCEPT ![t] =
                 [NoRegistryCall EXCEPT !.service_name = service_name,
                                        !.session = session]]
    /\ UNCHANGED <<_limiters, _configs, heap, issued, process_vars>>

\* What a step of configure_rate_limiting after get_limiter leaves alone
MountFrame ==
    /\ CallerFrame
    /\ UNCHANGED <<_limiters, _configs, heap, issued, cls, env_vars>>

\* config = registry._configs.get(service_name.lower(),
\*                                get_config_from_env(service_name))
CrlConfig(t) ==
    /\ pc[t] = "crl_config"
    /\ reg' = [reg EXCEPT ![t].config =
                 DictGet(_configs, lower(reg[t].service_name),
                         EnvPolicy(reg[t].service_name))]
    /\ pc' = [pc EXCEPT ![t] = "crl_adapter"]
    /\ UNCHANGED <<state, ret, response, mount_vars>>
    /\ MountFrame

\* RateLimitedAdapter.__init__: the adapter keeps the bucket it is given
\* and `config or rate_limiter.config` (NoPolicy for a config of None);
\* service_key is history, the key the adapter was built for
RateLimitedAdapterNew(rate_limiter, config, service_key) ==
    [rate_limiter |-> rate_limiter,
     config |-> IF config = NoPolicy THEN heap[rate_limiter].config
                ELSE config,
     service_key |-> service_key]

\* adapter = RateLimitedAdapter(rate_limiter, config);
\* session.mount("https://", adapter)
CrlAdapter(t) ==
    /\ pc[t] = "crl_adapter"
    /\ adapters' = Append(adapters,
                          RateLimitedAdapterNew(reg[t].rate_limiter,
                                                reg[t].config,
                                                reg[t].service_key))
    /\ mounts' = [mounts EXCEPT ![reg[t].session].https = Len(adapters) + 1]
    /\ reg' = [reg EXCEPT ![t].adapter = Len(adapters) + 1]
    /\ pc' = [pc EXCEPT ![t] = "crl_http"]
    /\ UNCHANGED <<state, ret, response>>
    /\ MountFrame

\* session.mount("http://", adapter), and the return
CrlHttp(t) ==
    /\ pc[t] = "crl_http"
    /\ mounts' = [mounts EXCEPT ![reg[t].session].http = reg[t].adapter]
    /\ Finish(t, "returned", None)
    /\ reg' = [reg EXCEPT ![t] = NoRegistryCall]
    /\ UNCHANGED adapters
    /\ MountFrame

\* The bucket as it would be if an adapter looked its key up in the
\* registry at every request
LimiterOfKey(a) == _limiters[adapters[a].service_key]

\* self.rate_limiter of an adapter: the bucket it was constructed with
LimiterOf(a) == adapters[a].rate_limiter

\* A request goes out on a session over a scheme that has a rate-limited
\* adapter mounted: send draws on the adapter's bucket (one round of
\* self.rate_limiter.acquire(): a refill, and a token taken when there is
\* one, under the instance's data lock)
UseAdapter(session, scheme) ==
    /\ mounts[session][scheme] # NoAdapter
    /\ LET b == LimiterOf(mounts[session][scheme]) IN
        /\ b # NoBucket
        /\ heap' = [heap EXCEPT ![b] = try_acquire(@, clock).bucket]
    /\ UNCHANGED <<call_vars, response, _limiters, _configs, reg, issued>>
    /\ RegistryFrame

MountStep(t) ==
    \/ GlCheck(t)
    \/ GlConfig(t)
    \/ GlStore(t)
    \/ GlReturn(t)
    \/ CrlConfig(t)
    \/ CrlAdapter(t)
    \/ CrlHttp(t)

Schemes == {"https", "http"}

\* Threads call configure_rate_limiting concurrently, as the clients of
\* the services do when they are constructed, each on the session it made
\* (a requests.Session is not shared while it is being set up)
Owner(session) == ((session - 1) % NumThreads) + 1
NextMount ==
    \E t \in Threads :
        \/ \E session \in Sessions, n \in ServiceNames :
              /\ Owner(session) = t
              /\ CallConfigureRateLimiting(t, session, n)
        \/ MountStep(t)

SpecMount == InitRegistrySpec /\ [][NextMount]_vars

\* Sessions are configured and policies replaced one call after another,
\* and requests go out on the sessions as time passes
AllIdle == \A u \in Threads : pc[u] = "idle"
NextMountSeq ==
    \/ RegistryTick
    \/ \E session \in Sessions, scheme \in Schemes : UseAdapter(session, scheme)
    \/ \E t \in Threads :
        \/ /\ AllIdle
           /\ \/ \E session \in Sessions, n \in ServiceNames :
                    CallConfigureRateLimiting(t, session, n)
              \/ \E n \in ServiceNames, c \in ConfiguredPolicies :
                    CallConfigure(t, n, c)
        \/ MountStep(t)
        \/ CfStore(t)
        \/ CfCheck(t)
        \/ CfReplace(t)

SpecMountSeq == InitRegistrySpec /\ [][NextMountSeq]_vars

\* --------------------------------------------- RateLimiterRegistry.__new__
\* RateLimiterRegistry() is called, directly or by get_rate_limiter_registry
CallNew(t) ==
    /\ Enter(t, "__new__", "new_check")
    /\ UNCHANGED registry_vars

\* What a step of __new__ leaves alone
NewFrame ==
    /\ CallerFrame
    /\ UNCHANGED <<heap, reg, issued, mount_vars, env_vars>>

\* `if cls._instance is None`, outside the lock
NewCheck(t) ==
    /\ pc[t] = "new_check"
    /\ pc' = [pc EXCEPT ![t] = IF cls._instance = 0 THEN "new_lock"
                               ELSE "new_return"]
    /\ UNCHANGED <<state, ret, response, cls, _limiters, _configs>>
    /\ NewFrame

\* `with cls._lock`
NewLock(t) ==
    /\ pc[t] = "new_lock"
    /\ LockFree(cls.lock)
    /\ cls' = [cls EXCEPT !.lock = t]
    /\ pc' = [pc EXCEPT ![t] = "new_check2"]
    /\ UNCHANGED <<state, ret, response, _limiters, _configs>>
    /\ NewFrame

\* The test under the lock as it would be if it were left out
SecondCheckSkipped(instance) == TRUE

\* `if cls._instance is None`, under the lock
SecondCheck(instance) == instance = 0

\* The second test; when it fails the `with` block ends and the lock is
\* released
NewCheck2(t) ==
    /\ pc[t] = "new_check2"
    /\ IF SecondCheck(cls._instance)
       THEN /\ pc' = [pc EXCEPT ![t] = "new_create"]
            /\ UNCHANGED cls
       ELSE /\ pc' = [pc EXCEPT ![t] = "new_return"]
            /\ cls' = [cls EXCEPT !.lock = NoThread]
    /\ UNCHANGED <<state, ret, response, _limiters, _configs>>
    /\ NewFrame

\* cls._instance = super().__new__(cls): the instance is visible to every
\* thread from here on, without its maps
NewCreate(t) ==
    /\ pc[t] = "new_create"
    /\ cls' = [cls EXCEPT !._instance = cls.made + 1,
                          !.made = @ + 1,
                          !.attrs = {}]
    /\ pc' = [pc EXCEPT ![t] = "new_limiters"]
    /\ UNCHANGED <<state, ret, response, _limiters, _configs>>
    /\ NewFrame

\* cls._instance._limiters = {}
NewLimiters(t) ==
    /\ pc[t] = "new_limiters"
    /\ _limiters' = [k \in DictKeys |-> NoBucket]
    /\ cls' = [cls EXCEPT !.attrs = @ \cup {"_limiters"},
                          !.inits["_limiters"] = @ + 1]
    /\ pc' = [pc EXCEPT ![t] = "new_configs"]
    /\ UNCHANGED <<state, ret, response, _configs>>
    /\ NewFrame

\* cls._instance._configs = {}, and the end of the `with` block
NewConfigs(t) ==
    /\ pc[t] = "new_configs"
    /\ _configs' = [k \in DictKeys |-> NoPolicy]
    /\ cls' = [cls EXCEPT !.attrs = @ \cup {"_configs"},
                          !.inits["_configs"] = @ + 1,
                          !.lock = NoThread]
    /\ pc' = [pc EXCEPT ![t] = "new_return"]
    /\ UNCHANGED <<state, ret, response, _limiters>>
    /\ NewFrame

\* return cls._instance
NewReturn(t) ==
    /\ pc[t] = "new_return"
    /\ Finish(t, "returned", Registry(cls._instance))
    /\ cls' = [cls EXCEPT !.refs[t] = cls._instance]
    /\ UNCHANGED <<_limiters, _configs>>
    /\ NewFrame

NewStep(t) ==
    \/ NewCheck(t)
    \/ NewLock(t)
    \/ NewCheck2(t)
    \/ NewCreate(t)
    \/ NewLimiters(t)
    \/ NewConfigs(t)
    \/ NewReturn(t)

\* A process in which no registry has been constructed yet
InitSingleton ==
    /\ InitThreads
    /\ InitMaps
    /\ cls = Unconstructed
    /\ environ = FixedEnviron
    /\ bucket = TokenBucket(StandbyConfig, 0)
    /\ adapter = [config |-> StandbyConfig]

\* Threads construct the registry concurrently, and call get_limiter and
\* configure on the instance they were returned
NextSingleton ==
    \E t \in Threads :
        \/ CallNew(t)
        \/ NewStep(t)
        \/ /\ cls.refs[t] # 0
           /\ \/ \E n \in ServiceNames : CallGetLimiter(t, n)
              \/ \E n \in ServiceNames, c \in ConfiguredPolicies :
                    CallConfigure(t, n, c)
        \/ GlCheck(t)
        \/ GlConfig(t)
        \/ GlStore(t)
        \/ GlReturn(t)
        \/ CfStore(t)
        \/ CfCheck(t)
        \/ CfReplace(t)

SpecSingleton == InitSingleton /\ [][NextSingleton]_vars

\* ------------------------------------------ get_config_from_env on its own
\* The texts a variable of one level is drawn from: not set, empty, texts
\* the parser of the field rejects, texts it accepts.  `d` is the digit of
\* the level, so that the levels can be told apart in the result.
RpsTexts(d) == {Unset, Str(<<>>), Str(<<"f", "a", "s", "t">>),
                Str(<<"i", "n", "f">>), Str(Digit(d))}
BurstTexts(d) == {Unset, Str(<<"i", "n", "f">>), Str(Digit(d))}
BackoffTexts(d) == {Unset, Str(<<"n", "a", "n">>), Str(Digit(d))}
MaxRetriesTexts(d) == {Unset, Str(<<"-">>), Str(Digit(d))}

LevelTexts(d) ==
    {[x \in Suffixes |->
        CASE x = "RATE_LIMIT_RPS" -> rps
          [] x = "RATE_LIMIT_BURST" -> burst
          [] x = "RATE_LIMIT_BACKOFF_BASE" -> backoff
          [] OTHER -> max_retries] :
        rps \in RpsTexts(d), burst \in BurstTexts(d),
        backoff \in BackoffTexts(d), max_retries \in MaxRetriesTexts(d)}

\* The environments: the global variables and those of JIRA drawn, the
\* variables of CONFLUENCE not set
GlobalDigit == 3
ServiceDigit == 4
Environment(g, s) ==
    [name \in EnvNames |->
        IF name[1] = Atlassian THEN g[name[2]]
        ELSE IF name[1] = upper(Jira) THEN s[name[2]]
        ELSE Unset]

InitEnv ==
    /\ InitThreads
    /\ InitMaps
    /\ cls = Constructed
    /\ \E g \in LevelTexts(GlobalDigit), s \in LevelTexts(ServiceDigit) :
            environ = Environment(g, s)
    /\ bucket = TokenBucket(StandbyConfig, 0)
    /\ adapter = [config |-> StandbyConfig]

\* get_config_from_env(service_name) is called and returns
CallGetConfigFromEnv(service_name) ==
    /\ resolved' = [asked |-> TRUE, service_name |-> service_name,
                    config |-> get_config_from_env(service_name)]
    /\ UNCHANGED <<clock, bucket_vars, call_vars, local_vars, acquire_hist,
                   send_hist, _limiters, _configs, heap, reg, issued, cls,
                   mount_vars, environ>>

NextEnv == \E n \in {NoName} \cup ServiceNames : CallGetConfigFromEnv(n)

SpecEnv == InitEnv /\ [][NextEnv]_vars


\* ================================================================== claims
\* The quantities the claims speak of, written out from the claims
Rps == bucket.config.requests_per_second
Capacity == bucket.config.burst_capacity * One
\* the tokens a refill at the present clock value shows
RefilledTokens == Min(Capacity, bucket.tokens + (clock - bucket.last_refill) * Rps)
\* thread t leaves position p in this step
Leaves(t, p) == pc[t] = p /\ pc'[t] # p

\* C1: admission rate bound.  In every window of clock values the number of
\* successful acquisitions is at most burst_capacity + requests_per_second *
\* (length of the window), whoever the callers are (try_acquire, acquire,
\* acquire_async, interleaved in any way); at one instant at most
\* burst_capacity succeed.  `load` is the greatest excess over the refill
\* rate among the windows ending now, so the bound on it is the bound on
\* every window.
C1_AdmissionRateBound ==
    /\ load <= Capacity
    /\ acquired_now * One <= load
    /\ acquired_now <= bucket.config.burst_capacity

\* C1 witness: the bound is met with equality at a later clock value, by an
\* acquisition made then
C1_Witness ==
    /\ load = Capacity
    /\ clock >= 2
    /\ acquired_now >= 1

\* C2: token bounds.  The bucket starts with tokens = burst_capacity, and in
\* every state, after any interleaving of refill, get_wait_time,
\* try_acquire, acquire and acquire_async calls, 0 <= tokens <=
\* burst_capacity.
C2_TokenBounds ==
    /\ 0 <= bucket.tokens
    /\ bucket.tokens <= Capacity
    /\ (\A t \in Threads : top[t] = "none") => bucket.tokens = Capacity

\* C2 witness: a bucket refilled up to its capacity again after tokens were
\* taken from it
C2_Witness ==
    /\ bucket.tokens = Capacity
    /\ bucket.last_refill >= 2
    /\ \E t \in Threads : took[t] >= 1

\* C3 as stated: try_acquire refills; with a token it subtracts exactly 1.0
\* and returns True; otherwise it returns False and leaves tokens and
\* last_refill as they were before the call.
C3_Original ==
    [][\A t \in Threads :
        Leaves(t, "try_body") =>
            IF RefilledTokens >= One
            THEN /\ bucket'.tokens = RefilledTokens - One
                 /\ top[t] = "try_acquire" => ret'[t] = Boolean(TRUE)
            ELSE /\ bucket'.tokens = bucket.tokens
                 /\ bucket'.last_refill = bucket.last_refill
                 /\ top[t] = "try_acquire" => ret'[t] = Boolean(FALSE)]_vars

\* C3 amended: try_acquire refills; with a token it subtracts exactly 1.0
\* and returns True; otherwise it returns False having consumed nothing,
\* and leaves the bucket as its refill left it (tokens the refilled amount,
\* below 1.0, and last_refill the clock value it read).
C3_TryAcquire ==
    [][\A t \in Threads :
        Leaves(t, "try_body") =>
            /\ bucket'.last_refill = clock
            /\ bucket'.config = bucket.config
            /\ IF RefilledTokens >= One
               THEN /\ bucket'.tokens = RefilledTokens - One
                    /\ top[t] = "try_acquire" => ret'[t] = Boolean(TRUE)
               ELSE /\ bucket'.tokens = RefilledTokens
                    /\ top[t] = "try_acquire" => ret'[t] = Boolean(FALSE)]_vars

\* C3 witness: a try_acquire that returned False after its refill had moved
\* the bucket on
C3_Witness ==
    \E t \in Threads :
        /\ top[t] = "try_acquire"
        /\ state[t] = "returned"
        /\ ret[t] = Boolean(FALSE)
        /\ bucket.tokens > 0
        /\ bucket.last_refill > 0

\* C4: get_wait_time consumes nothing; it returns 0 exactly when the
\* refilled tokens are >= 1.0 and (1.0 - tokens) / requests_per_second
\* otherwise; and that is the exact time to the next token: a try_acquire
\* that many ticks later succeeds and one tick sooner fails, and a caller of
\* the acquire loop that nobody raced finds its token when its sleep is over.
C4_WaitTimeExact ==
    LET g == get_wait_time(bucket, clock) IN
    /\ g.bucket.tokens = RefilledTokens
    /\ (g.result = 0) <=> (RefilledTokens >= One)
    /\ RefilledTokens < One => g.result * Rps = One - RefilledTokens
    /\ try_acquire(g.bucket, clock + g.result).result
    /\ g.result > 0 => ~try_acquire(g.bucket, clock + g.result - 1).result
    /\ \A t \in Threads :
        (InAcquire(t) /\ pc[t] = "acq_sleep" /\ view[t] # "raced"
            /\ clock >= wake[t]) => RefilledTokens >= One

\* C4 witness: a caller asleep for a positive wait time on a bucket short of
\* a token by a fraction of one, at the very clock value its sleep ends
C4_Witness ==
    \E t \in Threads :
        /\ InAcquire(t)
        /\ pc[t] = "acq_sleep"
        /\ view[t] # "raced"
        /\ wait_time[t] > 0
        /\ wait_time[t] * Rps < One
        /\ clock = wake[t]

\* C5: acquire (blocking) returns only after it has itself consumed exactly
\* one token by a successful try_acquire.  With a token available to it (one
\* was there when it began and nobody took it) it returns without sleeping;
\* on an empty bucket it sleeps, for the computed wait time, which is
\* positive and at most 1 / requests_per_second (that much on a bucket of
\* capacity 1 just emptied), and once is enough unless it is raced.
C5_AcquireTakesOneToken ==
    \A t \in Threads :
        top[t] = "acquire" =>
            /\ state[t] = "running" => took[t] = 0
            /\ state[t] = "returned" => took[t] = 1
            /\ (state[t] = "returned" /\ view[t] = "token") => nsleeps[t] = 0
            /\ (state[t] = "returned" /\ view[t] = "empty") => nsleeps[t] <= 1
            /\ pc[t] = "acq_sleep" =>
                /\ nsleeps[t] >= 1
                /\ wait_time[t] >= 1
                /\ wait_time[t] * Rps <= One
                /\ wake[t] - wait_time[t] <= clock
                /\ (bucket.last_refill = wake[t] - wait_time[t]
                    /\ bucket.tokens = 0) => wait_time[t] * Rps = One

\* C5 witness: an acquire on an emptied bucket of capacity 1 that slept once,
\* was not raced, and has returned with its one token
C5_Witness ==
    \E t \in Threads :
        /\ top[t] = "acquire"
        /\ state[t] = "returned"
        /\ bucket.config.burst_capacity = 1
        /\ view[t] = "empty"
        /\ nsleeps[t] = 1
        /\ took[t] = 1

\* C6: in send every underlying send, the first and every resend, is
\* preceded by its own completed token acquisition: the call has consumed
\* one token more than it has sent when it is about to send, and as many as
\* it has sent at every other point, so no resend goes out on a token taken
\* before the backoff wait.
C6_TokenPerSend ==
    \A t \in Senders :
        top[t] = "send" =>
            IF pc[t] = "send_io"
            THEN took[t] = sends[t] + 1
            ELSE took[t] = sends[t]

\* C6 witness: a send call that resent after a backoff wait and returned
C6_Witness ==
    \E t \in Senders :
        /\ top[t] = "send"
        /\ state[t] = "returned"
        /\ sends[t] >= 2
        /\ Len(waits[t]) >= 1
        /\ took[t] = sends[t]

C9_PassThrough ==
    /\ [](\A t \in Senders : state[t] = "returned" => pc[t] = "idle")
    /\ [][\A t \in Senders :
            (Leaves(t, "send_check")
                /\ response[t].status_code # TooManyRequests) =>
                /\ pc'[t] = "idle"
                /\ state'[t] = "returned"
                /\ ret'[t] = Response(response[t])
                /\ waits'[t] = waits[t]
                /\ sends'[t] = sends[t]
                /\ took'[t] = took[t]
                /\ retries'[t] = retries[t]
                /\ bucket' = bucket]_vars

\* C9 witness: a 503 returned after an earlier 429 of the same call
C9_Witness ==
    \E t \in Senders :
        /\ top[t] = "send"
        /\ state[t] = "returned"
        /\ ret[t].v.status_code = 503
        /\ retries[t] >= 1
        /\ sends[t] = retries[t] + 1

\* C10: a transport-level fault raised by the underlying send, on any
\* attempt, is propagated to the caller at once: never retried, never
\* counted as a retry attempt, never treated as a 429, and followed by no
\* backoff wait.
C10_FaultPropagates ==
    /\ [](\A t \in Senders :
            faulted[t] =>
                /\ pc[t] = "idle"
                /\ state[t] = "raised"
                /\ ret[t] = Exception("ConnectionError"))
    /\ [][\A t \in Senders :
            (~faulted[t] /\ faulted'[t]) =>
                /\ retries'[t] = retries[t]
                /\ waits'[t] = waits[t]
                /\ wake'[t] = wake[t]
                /\ all_plain'[t] = all_plain[t]
                /\ sends'[t] = sends[t] + 1]_vars

\* C10 witness: a fault on a resend, after a 429 and its backoff wait
C10_Witness ==
    \E t \in Senders :
        /\ faulted[t]
        /\ state[t] = "raised"
        /\ retries[t] >= 1
        /\ Len(waits[t]) = retries[t]
        /\ sends[t] = retries[t] + 1

\* The 429 responses whose Retry-After is a plain non-negative number of
\* seconds, with the number each one states
SecondsStated ==
    (<<"0">> :> 0) @@ (<<"1">> :> 1) @@ (<<"2">> :> 2)
\* send is handling a 429 with retries remaining
Retrying(t) ==
    /\ Leaves(t, "send_check")
    /\ response[t].status_code = TooManyRequests
    /\ retries[t] + 1 <= adapter.config.max_retries
\* the exponential backoff delay after the 429 being handled
BackoffNow(t) == adapter.config.backoff_base * Pow2(retries[t])

\* C11: when a 429 with retries remaining carries a Retry-After that is a
\* non-negative number of seconds, send waits exactly that value, once, and
\* not the exponential backoff value, before the resend: the wait is
\* recorded as the stated number, the sleep ends no sooner than that many
\* ticks later, and only then does the call go on to acquire and resend.
C11_RetryAfterUsed ==
    /\ [][\A t \in Senders :
            (Retrying(t) /\ response[t].retry_after \in DOMAIN SecondsStated) =>
                /\ pc'[t] = "send_sleep"
                /\ waits'[t] =
                     Append(waits[t], SecondsStated[response[t].retry_after])
                /\ wake'[t] = clock + SecondsStated[response[t].retry_after]
                /\ sends'[t] = sends[t]]_vars
    /\ [][\A t \in Senders :
            Leaves(t, "send_sleep") =>
                /\ clock >= wake[t]
                /\ pc'[t] = "gwt_lock"
                /\ waits'[t] = waits[t]]_vars

\* C11 witness: Retry-After: 2 on the first 429 of a call whose backoff would
\* have been 1: one wait of 2, then the resend
C11_Witness ==
    \E t \in Senders :
        /\ top[t] = "send"
        /\ adapter.config.backoff_base = 1
        /\ waits[t] = <<2>>
        /\ retries[t] = 1
        /\ sends[t] = 2
        /\ clock >= 2

\* C12 as stated: a Retry-After in any format other than a plain decimal
\* number of seconds (signed or not) is treated as absent: send does not
\* raise because of it and waits the exponential backoff delay.
C12_Original ==
    [][\A t \in Senders :
        (Retrying(t)
            /\ response[t].retry_after # Absent
            /\ \E i \in 1..Len(response[t].retry_after) :
                 ~(IsDigit(response[t].retry_after[i])
                   \/ response[t].retry_after[i] \in {"-", "+"})) =>
            /\ state'[t] # "raised"
            /\ pc'[t] = "send_sleep"
            /\ waits'[t] = Append(waits[t], BackoffNow(t))]_vars

\* C13 as stated: no silent infinite retries under any configuration: for
\* every RateLimitConfig the constructors accept and every behaviour of the
\* remote side, a call of send ends (it returns a response or a fault
\* propagates), given that each underlying send returns and the clock
\* advances.
C13_Original ==
    \A t \in Senders :
        (top[t] = "send" /\ state[t] = "running")
            ~> (state[t] \in {"returned", "raised"})

\* C14: with a valid policy, a clock that advances, fair scheduling and
\* finitely many competing calls, every caller blocked in acquire (threads)
\* or acquire_async (coroutines) obtains its token and returns, also when
\* threads and coroutines contend for the same bucket.
C14_AcquireResumes ==
    \A t \in Threads :
        InAcquire(t) ~> (state[t] = "returned" /\ took[t] = 1)

\* C14 witness: a thread in acquire and a coroutine in acquire_async on one
\* bucket, both of which had to sleep and one of which lost a token to the
\* other, and both have returned
C14_Witness ==
    \E t, u \in Threads :
        /\ top[t] = "acquire" /\ top[u] = "acquire_async"
        /\ state[t] = "returned" /\ state[u] = "returned"
        /\ nsleeps[t] >= 1 /\ nsleeps[u] >= 1
        /\ "raced" \in {view[t], view[u]}

\* A policy within the data model: positive rate, capacity and backoff base
ValidPolicy(c) ==
    /\ c.requests_per_second > 0
    /\ c.burst_capacity > 0
    /\ c.backoff_base > 0

\* C15 as stated: a policy with requests_per_second <= 0, burst_capacity <= 0
\* or backoff_base <= 0 is rejected when the policy or the bucket is
\* constructed, so no such policy is ever stored and no TokenBucket with
\* such a policy ever exists.
C15_Original ==
    /\ \A k \in DictKeys : _configs[k] # NoPolicy => ValidPolicy(_configs[k])
    /\ \A i \in 1..Len(heap) : ValidPolicy(heap[i].config)

\* C16 as stated: however the get_limiter calls for one key interleave, at
\* most one TokenBucket is built for it and at most one instance is handed
\* out for it, until a configure or a reset touches the key.
C16_Original ==
    \A k \in DictKeys :
        /\ issued[k].made <= 1
        /\ Cardinality(issued[k].handed) <= 1

\* The service each name stands for, written out: names differing only in
\* letter case stand for the same one, and its key is the lower-case name
KeyOf(name) ==
    CASE name = <<"j", "i", "r", "a">> -> Jira
      [] name = <<"J", "I", "R", "A">> -> Jira
      [] name = <<"c", "o", "n", "f", "l", "u", "e", "n", "c", "e">> ->
            Confluence
\* no caller is inside a registry call
Quiet == \A t \in Threads : ~InRegistry(t)

\* C17: registry keys are case-insensitive.  Only lower-case keys are ever
\* stored; configure stores its policy under the key of the name whatever
\* its case; get_limiter returns what is stored under the key of its name;
\* and so calls for "jira" and for "JIRA", made one after another, get one
\* and the same instance.
C17_CaseInsensitive ==
    /\ [](\A k \in DictKeys :
            (_limiters[k] # NoBucket \/ _configs[k] # NoPolicy
                \/ issued[k] # NothingIssued) => k \in {Jira, Confluence})
    /\ [](\A k \in DictKeys : Cardinality(issued[k].handed) <= 1)
    /\ [][\A t \in Threads :
            /\ Leaves(t, "cf_store") =>
                _configs'[KeyOf(reg[t].service_name)] = reg[t].config
            /\ (Leaves(t, "gl_return") /\ state'[t] = "returned") =>
                /\ ret'[t] = Bucket(_limiters[KeyOf(reg[t].service_name)])
                /\ issued'[KeyOf(reg[t].service_name)].handed = {ret'[t].v}
                /\ reg[t].service_name
                     \in issued'[KeyOf(reg[t].service_name)].names]_vars

\* C17 witness: one instance, handed out both to "jira" and to "JIRA"
C17_Witness ==
    /\ issued[Jira].names = {<<"j", "i", "r", "a">>, <<"J", "I", "R", "A">>}
    /\ Cardinality(issued[Jira].handed) = 1
    /\ _limiters[Jira] \in issued[Jira].handed

\* C18: get_limiter is a get-or-create.  When an entry exists it builds
\* nothing and returns the existing instance, whose tokens and last_refill
\* it does not touch; so calls for one key made one after another, with no
\* configure or reset in between, return the same instance; and different
\* keys have different instances.
C18_GetOrCreate ==
    /\ [](\A k \in DictKeys : Cardinality(issued[k].handed) <= 1
                              /\ issued[k].made <= 1)
    /\ [](\A j, k \in DictKeys :
            (j # k /\ _limiters[j] # NoBucket) => _limiters[j] # _limiters[k])
    /\ [][\A t \in Threads :
            /\ (Leaves(t, "gl_check")
                    /\ _limiters[KeyOf(reg[t].service_name)] # NoBucket) =>
                /\ pc'[t] = "gl_return"
                /\ heap' = heap
                /\ _limiters' = _limiters
            /\ Leaves(t, "gl_return") =>
                /\ heap' = heap
                /\ _limiters' = _limiters
                /\ ret'[t] = Bucket(_limiters[KeyOf(reg[t].service_name)])]_vars

\* C18 witness: two callers hold the one instance of a key, which has been
\* drawn on, while the other key has its own
C18_Witness ==
    /\ Quiet
    /\ \A t \in Threads :
        /\ top[t] = "get_limiter"
        /\ state[t] = "returned"
        /\ ret[t] = Bucket(_limiters[Jira])
    /\ heap[_limiters[Jira]].tokens
         < heap[_limiters[Jira]].config.burst_capacity * One
    /\ issued[Jira].made = 1
    /\ _limiters[Confluence] # NoBucket

\* C19: configure(key, newPolicy) on a key that has a bucket replaces it.
\* The bucket stored from then on is a new instance, different from every
\* bucket built before (so from every one returned before), carries
\* newPolicy and is full; a get_limiter that follows returns that instance,
\* its tokens newPolicy.burst_capacity when it is first handed out.
C19_ConfigureReplaces ==
    /\ [](\A k \in DictKeys :
            (Quiet /\ _limiters[k] # NoBucket /\ _configs[k] # NoPolicy) =>
                heap[_limiters[k]].config = _configs[k])
    /\ [][\A t \in Threads :
            /\ (Leaves(t, "cf_check")
                    /\ _limiters[KeyOf(reg[t].service_name)] # NoBucket) =>
                pc'[t] = "cf_replace"
            /\ Leaves(t, "cf_replace") =>
                LET k == KeyOf(reg[t].service_name) IN
                /\ _limiters'[k] \notin 1..Len(heap)
                /\ _limiters'[k] \in 1..Len(heap')
                /\ heap'[_limiters'[k]].config = reg[t].config
                /\ heap'[_limiters'[k]].tokens
                     = reg[t].config.burst_capacity * One
                /\ _configs[k] = reg[t].config
                /\ \A i \in 1..Len(heap) : heap'[i] = heap[i]
            /\ (Leaves(t, "gl_return") /\ state'[t] = "returned"
                    /\ issued[KeyOf(reg[t].service_name)] = NothingIssued) =>
                LET k == KeyOf(reg[t].service_name) IN
                /\ ret'[t] = Bucket(_limiters[k])
                /\ heap[_limiters[k]].tokens
                     = heap[_limiters[k]].config.burst_capacity * One
                /\ _configs[k] # NoPolicy
                /\ heap[_limiters[k]].config = _configs[k]]_vars

\* C19 witness: after a bucket was built from the environment and drawn on,
\* a configure replaced it, and a get_limiter has returned the new one
C19_Witness ==
    \E t \in Threads :
        /\ Quiet
        /\ top[t] = "get_limiter"
        /\ state[t] = "returned"
        /\ ret[t] = Bucket(_limiters[Jira])
        /\ _limiters[Jira] = 2
        /\ heap[1].tokens < heap[1].config.burst_capacity * One
        /\ heap[1].config # heap[2].config
        /\ heap[2].config = _configs[Jira]
        /\ issued[Jira].made = 0

\* C20 as stated: configure(key, policy) on a key with no bucket only stores
\* the policy and builds no bucket; the first later get_limiter(key) builds
\* its bucket from that stored policy, and does not consult the environment
\* configuration for it.
C20_Original ==
    [][\A t \in Threads :
        /\ (Leaves(t, "cf_check")
                /\ _limiters[KeyOf(reg[t].service_name)] = NoBucket) =>
            /\ state'[t] = "returned"
            /\ heap' = heap
            /\ _limiters' = _limiters
            /\ _configs[KeyOf(reg[t].service_name)] = reg[t].config
        /\ (Leaves(t, "gl_store")
                /\ _configs[KeyOf(reg[t].service_name)] # NoPolicy) =>
            /\ heap'[_limiters'[KeyOf(reg[t].service_name)]].config
                 = _configs[KeyOf(reg[t].service_name)]
            /\ ~reg[t].env_read]_vars

\* C20, the part that holds: configure(key, policy) on a key with no bucket
\* only stores the policy and builds no bucket; the first later
\* get_limiter(key) builds its bucket from that stored policy.  It does read
\* the environment configuration on the way (the default handed to dict.get
\* is evaluated first), and does not use what it read.
C20_StoredPolicyUsed ==
    [][\A t \in Threads :
        /\ (Leaves(t, "cf_check")
                /\ _limiters[KeyOf(reg[t].service_name)] = NoBucket) =>
            /\ state'[t] = "returned"
            /\ heap' = heap
            /\ _limiters' = _limiters
            /\ _configs[KeyOf(reg[t].service_name)] = reg[t].config
        /\ (Leaves(t, "gl_store")
                /\ _configs[KeyOf(reg[t].service_name)] # NoPolicy) =>
            /\ heap'[_limiters'[KeyOf(reg[t].service_name)]].config
                 = _configs[KeyOf(reg[t].service_name)]
            /\ Len(heap') = Len(heap) + 1
            /\ reg[t].env_read]_vars

\* C20 witness: a bucket built by get_limiter from a stored policy that is
\* not what the environment gives, for a key that had none
C20_Witness ==
    /\ Quiet
    /\ issued[Jira].made = 1
    /\ _configs[Jira] # NoPolicy
    /\ _configs[Jira] # EnvPolicy(Jira)
    /\ heap[_limiters[Jira]].config = _configs[Jira]
    /\ \E t \in Threads : top[t] = "get_limiter" /\ ret[t] = Bucket(_limiters[Jira])

\* -------------------------------------------- claims C21 to C30
\* C21: holders of a replaced bucket stay on it.  An adapter never changes
\* the bucket and the policy it was constructed with, whatever configure
\* does afterwards; the replacement itself leaves every mount and every
\* existing bucket as it is; a request through an adapter draws on the
\* adapter's own bucket and changes no other, the key's new bucket
\* included; and a session gets another adapter only from a later
\* configure_rate_limiting, which mounts the bucket its get_limiter call
\* returned.
C21_StaleHolders ==
    /\ [][\A a \in 1..Len(adapters) : adapters'[a] = adapters[a]]_vars
    /\ [][\A t \in Threads :
            Leaves(t, "cf_replace")
                => /\ mounts' = mounts
                   /\ \A i \in 1..Len(heap) : heap'[i] = heap[i]]_vars
    /\ [][\A s \in Sessions, scheme \in Schemes :
            UseAdapter(s, scheme)
                => LET b == adapters[mounts[s][scheme]].rate_limiter IN
                   /\ heap'[b] = try_acquire(heap[b], clock).bucket
                   /\ \A i \in 1..Len(heap) : i # b => heap'[i] = heap[i]
                   /\ _limiters' = _limiters]_vars
    /\ [][\A s \in Sessions, scheme \in Schemes :
            mounts'[s][scheme] # mounts[s][scheme]
                => \E t \in Threads :
                    /\ top[t] = "configure_rate_limiting"
                    /\ pc[t] \in {"crl_adapter", "crl_http"}
                    /\ reg[t].session = s
                    /\ adapters'[mounts'[s][scheme]].rate_limiter
                         = reg[t].rate_limiter]_vars

\* A session still mounted on the bucket configure replaced: its adapter
\* has the old bucket and the old policy, a request went out through it
\* after the replacement (the old bucket was drawn on at a later clock
\* value than the new one was built at), and the new bucket is as full as
\* it was built
C21_Witness ==
    \E s \in Sessions :
        LET a == mounts[s].https
            k == adapters[a].service_key
            old == LimiterOf(a)
            new == _limiters[k]
        IN  /\ AllIdle
            /\ a # NoAdapter
            /\ mounts[s].http = a
            /\ new # NoBucket
            /\ new # old
            /\ _configs[k] # NoPolicy
            /\ adapters[a].config # _configs[k]
            /\ heap[new].config = _configs[k]
            /\ heap[old].last_refill > heap[new].last_refill
            /\ heap[old].tokens < heap[old].config.burst_capacity * One
            /\ heap[new].tokens = heap[new].config.burst_capacity * One

\* No call of configure_rate_limiting is between its two mounts on session s
Mounted(s) ==
    \A t \in Threads : ~(pc[t] = "crl_http" /\ reg[t].session = s)

\* C22: all transports of one service share one budget.  Any two adapters
\* configure_rate_limiting built for the same service key, whatever the
\* letter case of the name and whatever the session, have the same
\* TokenBucket; and outside a call in progress on it, each session has one
\* adapter on https:// and http://.
C22_Original ==
    /\ \A a, b \in 1..Len(adapters) :
         adapters[a].service_key = adapters[b].service_key
            => LimiterOf(a) = LimiterOf(b)
    /\ \A s \in Sessions : Mounted(s) => mounts[s].https = mounts[s].http

\* C23: reset clears every stored policy and every bucket.  After it no key
\* has a bucket or a policy; a get_limiter that finds no bucket builds one
\* (it returns none that was there before), a new instance different from
\* every instance built before, and with no policy stored it builds it from
\* the environment configuration.
C23_ResetClears ==
    [][\A t \in Threads :
        /\ Leaves(t, "rs_limiters") =>
            \A k \in DictKeys : _limiters'[k] = NoBucket
        /\ Leaves(t, "rs_configs") =>
            /\ state'[t] = "returned"
            /\ \A k \in DictKeys :
                /\ _limiters'[k] = NoBucket
                /\ _configs'[k] = NoPolicy
        /\ (Leaves(t, "gl_check")
                /\ _limiters[KeyOf(reg[t].service_name)] = NoBucket) =>
            pc'[t] = "gl_config"
        /\ Leaves(t, "gl_store") =>
            LET k == KeyOf(reg[t].service_name) IN
            /\ _limiters'[k] \notin 1..Len(heap)
            /\ \A i \in 1..Len(heap) : heap'[i] = heap[i]
            /\ _configs[k] = NoPolicy =>
                heap'[_limiters'[k]].config = EnvPolicy(k)
            /\ pc'[t] = "gl_return"
        /\ (Leaves(t, "gl_return") /\ state'[t] = "returned") =>
            ret'[t] = Bucket(_limiters[KeyOf(reg[t].service_name)])]_vars

\* C23 witness: a bucket built from a configured policy is gone from the
\* registry with every policy, a reset having returned; get_limiter has
\* since built and returned another instance, from the environment
C23_Witness ==
    \E t, u \in Threads :
        /\ Quiet
        /\ top[u] = "reset" /\ state[u] = "returned"
        /\ top[t] = "get_limiter" /\ state[t] = "returned"
        /\ ret[t] = Bucket(2)
        /\ _limiters[Jira] = 2
        /\ \A k \in DictKeys :
            /\ _configs[k] = NoPolicy
            /\ k # Jira => _limiters[k] = NoBucket
        /\ heap[1].config \in ConfiguredPolicies
        /\ heap[2].config = EnvPolicy(Jira)
        /\ heap[2].config # heap[1].config

\* C24: the registry is a process-wide singleton.  At most one instance is
\* ever created, also when the first constructions race; every
\* RateLimiterRegistry() / get_rate_limiter_registry() call returns that
\* instance; each of its two maps is assigned an empty dict once at most,
\* and once for each by the time the construction that created it returns;
\* and no construction empties a map again: a key holding a bucket or a
\* policy keeps holding one, and the steps of __new__ leave the content of
\* both maps as it is.
C24_Singleton ==
    /\ [](cls.made <= 1)
    /\ [](\A t \in Threads :
            /\ cls.refs[t] # 0 => cls.refs[t] = 1 /\ cls._instance = 1
            /\ top[t] = "__new__" /\ state[t] = "returned"
                 => ret[t] = Registry(1))
    /\ [](\A a \in Attributes : cls.inits[a] <= 1)
    /\ [](cls._instance # 0 /\ cls.lock = NoThread
            => \A a \in Attributes : cls.inits[a] = 1 /\ HasAttr(a))
    /\ [][\A k \in DictKeys :
            /\ _limiters[k] # NoBucket => _limiters'[k] # NoBucket
            /\ _configs[k] # NoPolicy => _configs'[k] # NoPolicy]_vars
    /\ [][\A t \in Threads :
            top[t] = "__new__" /\ pc'[t] # pc[t]
                => _limiters' = _limiters /\ _configs' = _configs]_vars

\* A construction that raced: the caller found no instance at the first
\* test, waited for the lock, and is now at the second test with the
\* instance made by another caller, which has been handed out and holds a
\* bucket and a policy already
C24_Witness ==
    \E t \in Threads, u \in Threads :
        /\ u # t
        /\ pc[t] = "new_check2"
        /\ cls._instance = 1
        /\ cls.refs[u] = 1
        /\ _limiters[Jira] # NoBucket
        /\ _configs[Jira] # NoPolicy

\* The value the claim gives a field: the service variable when it is set,
\* not empty and parses, else the global variable on the same terms, else
\* the default
Usable(val, type) ==
    val.kind = "str" /\ val.v # <<>> /\ Parse(type, val.v).kind # "None"
ByPrecedence(name, suffix, type, default) ==
    LET service == IF name = NoName THEN Unset
                   ELSE getenv(environ, EnvName(upper(name), suffix))
        global == getenv(environ, EnvName(Atlassian, suffix))
    IN  IF Usable(service, type) THEN Parse(type, service.v)
        ELSE IF Usable(global, type) THEN Parse(type, global.v)
        ELSE Number(default)

\* C25: get_config_from_env resolves each of the four fields on its own,
\* the service variable before the global ATLASSIAN_ variable before the
\* default (10.0, 20, 1.0, 5); a value that is not set, empty or does not
\* parse is passed over for the next level, and the call returns a policy
\* whatever the environment holds (no field is left without a value).
C25_EnvPrecedence ==
    resolved.asked =>
        LET n == resolved.service_name
            c == resolved.config
        IN  /\ c.requests_per_second =
                 ByPrecedence(n, "RATE_LIMIT_RPS", "float", 10)
            /\ c.burst_capacity =
                 ByPrecedence(n, "RATE_LIMIT_BURST", "int", 20)
            /\ c.backoff_base =
                 ByPrecedence(n, "RATE_LIMIT_BACKOFF_BASE", "float", 1)
            /\ c.max_retries =
                 ByPrecedence(n, "RATE_LIMIT_MAX_RETRIES", "int", 5)
            /\ \A f \in DOMAIN c : c[f].kind # "None"

\* The four fields of one call come from three different levels: the rate
\* from the service variable though the global one is set too, the burst
\* from the global variable because the service one does not parse as an
\* int, the backoff and the retries from the defaults (nothing set; a
\* service value that does not parse over a global one that is no use)
C25_Witness ==
    /\ resolved.asked
    /\ resolved.service_name = Jira
    /\ environ[EnvName(Atlassian, "RATE_LIMIT_RPS")] = Str(Digit(GlobalDigit))
    /\ environ[EnvName(upper(Jira), "RATE_LIMIT_BURST")] = Str(<<"i", "n", "f">>)
    /\ environ[EnvName(upper(Jira), "RATE_LIMIT_MAX_RETRIES")] = Str(<<"-">>)
    /\ resolved.config =
         RateLimitConfigNew(Number(ServiceDigit), Number(GlobalDigit),
                            Number(DefaultBackoffBase),
                            Number(DefaultMaxRetries))

\* Caller t is in the loop of acquire or acquire_async
InLoop(t) == top[t] \in {"acquire", "acquire_async"}

\* C26 as stated: every iteration of the loop of acquire and acquire_async
\* either sleeps for a positive duration or acquires a token and returns,
\* also when another caller wins the race for the token.
C26_Original ==
    [][\A t \in Threads :
        InLoop(t) =>
            /\ Leaves(t, "gwt_body") =>
                \/ pc'[t] = "try_lock"
                \/ pc'[t] = "acq_sleep" /\ wait_time'[t] > 0
            /\ Leaves(t, "try_body") =>
                /\ took'[t] = took[t] + 1
                /\ state'[t] = "returned"]_vars

\* C26 amended: an iteration whose get_wait_time is positive sleeps for that
\* long, and no shorter; one whose get_wait_time is 0 goes to try_acquire
\* without sleeping and returns when it gets the token.  It gets it unless
\* another caller took a token between the two calls: only then does the
\* iteration end without a sleep and without a token, and the loop goes
\* round at once.
C26_NoBusyWait ==
    [][\A t \in Threads :
        InLoop(t) =>
            /\ Leaves(t, "gwt_body") =>
                IF RefilledTokens >= One
                THEN pc'[t] = "try_lock"
                ELSE /\ pc'[t] = "acq_sleep"
                     /\ wait_time'[t] > 0
                     /\ wake'[t] = clock + wait_time'[t]
            /\ Leaves(t, "acq_sleep") =>
                /\ clock >= wake[t]
                /\ pc'[t] = "gwt_lock"
            /\ Leaves(t, "try_body") =>
                IF took'[t] = took[t] + 1
                THEN state'[t] = "returned"
                ELSE /\ beaten[t]
                     /\ RefilledTokens < One
                     /\ state'[t] = "running"
                     /\ pc'[t] = "gwt_lock"]_vars

\* C26 witness: a caller whose get_wait_time was 0 lost the token to another
\* caller, and is about to go round the loop again without having slept
C26_Witness ==
    \E t \in Threads :
        /\ InLoop(t)
        /\ pc[t] = "gwt_lock"
        /\ beaten[t]
        /\ nsleeps[t] = 0
        /\ took[t] = 0

\* C27: the refill-and-consume arithmetic is atomic under the one data lock.
\* A caller is inside the body of get_wait_time or try_acquire exactly when
\* it holds the lock, so no two callers are inside at once; no caller holds
\* the lock while it sleeps or while the underlying send is in progress; and
\* a try_acquire succeeds exactly when the refilled bucket holds a token,
\* taking exactly one, so of the callers that contend for k tokens exactly k
\* succeed.
C27_DataLockAtomic ==
    /\ [](\A t \in Threads : pc[t] \in {"gwt_body", "try_body"} <=> lock = t)
    /\ [](Cardinality({t \in Threads : pc[t] \in {"gwt_body", "try_body"}})
            <= 1)
    /\ [](\A t \in Threads :
            pc[t] \in {"acq_sleep", "send_sleep", "send_io", "send_check"}
                => lock # t)
    /\ [](acquired_now <= bucket.config.burst_capacity)
    /\ [][\A t \in Threads :
            Leaves(t, "try_body") =>
                /\ (took'[t] = took[t] + 1) <=> (RefilledTokens >= One)
                /\ (took'[t] = took[t]) <=> (RefilledTokens < One)
                /\ acquired_now' - acquired_now = took'[t] - took[t]
                /\ bucket'.tokens = RefilledTokens
                                      - (took'[t] - took[t]) * One
                /\ lock' = NoThread]_vars

\* C27 witness: two callers ran try_acquire for the one token of a bucket at
\* one instant; one got it and the other did not
C27_Witness ==
    \E t \in Senders, u \in Threads \ Senders :
        /\ bucket.config.burst_capacity = 1
        /\ clock = 0
        /\ took[t] = 1
        /\ pc[t] = "send_io"
        /\ top[u] = "try_acquire"
        /\ state[u] = "returned"
        /\ ret[u] = Boolean(FALSE)
        /\ acquired_now = 1

\* The loop of acquire_async, inside its `async with`
LoopPcs == {"gwt_lock", "gwt_body", "acq_sleep", "try_lock", "try_body"}
InAsyncLoop(t) == top[t] = "acquire_async" /\ pc[t] \in LoopPcs

\* C28: acquire_async serialises the coroutines of an event loop.  At most
\* one coroutine is inside the wait/compute/sleep/retry loop of the bucket,
\* and the async lock is held exactly while one is, its sleep included; a
\* coroutine not yet admitted has taken nothing; the async lock is not the
\* data lock, which a sleeping coroutine does not hold and which every token
\* check of the loop is made under.
C28_AsyncSerialised ==
    /\ Cardinality({t \in Threads : InAsyncLoop(t)}) <= 1
    /\ (async_lock = "locked") <=> (\E t \in Threads : InAsyncLoop(t))
    /\ \A t \in Threads :
        /\ (InAsyncLoop(t) /\ pc[t] = "acq_sleep") =>
            /\ async_lock = "locked"
            /\ lock # t
        /\ (InAsyncLoop(t) /\ pc[t] \in {"gwt_body", "try_body"}) => lock = t
        /\ pc[t] = "async_enter" => took[t] = 0 /\ nsleeps[t] = 0

\* C28 witness: one coroutine asleep inside the loop, holding the async lock
\* and not the data lock, while another waits to be admitted
C28_Witness ==
    \E t, u \in Threads :
        /\ InAsyncLoop(t)
        /\ pc[t] = "acq_sleep"
        /\ clock < wake[t]
        /\ async_lock = "locked"
        /\ lock = NoThread
        /\ top[u] = "acquire_async"
        /\ pc[u] = "async_enter"

\* C29 as stated: a bucket has at most one async lock over its lifetime.
\* _get_async_lock never creates a second lock object, so all callers of
\* acquire_async on the bucket, callers on different threads that start
\* concurrently included, are on the same lock.
C29_Original ==
    /\ alock.made <= 1
    /\ \A t, u \in Threads :
        (alock.mine[t] # 0 /\ alock.mine[u] # 0) =>
            alock.mine[t] = alock.mine[u]

\* C30: last_refill never decreases, whatever the operations on the bucket
\* and however they interleave; every step that changes the bucket is a
\* refill, and leaves last_refill at the clock value it read; last_refill
\* is never ahead of the clock, so the elapsed time of a refill is never
\* negative.
C30_LastRefillMonotone ==
    /\ [](bucket.last_refill <= clock)
    /\ [][bucket'.last_refill >= bucket.last_refill]_vars
    /\ [][bucket' # bucket =>
            /\ bucket'.last_refill = clock
            /\ clock - bucket.last_refill >= 0]_vars
    /\ [][\A t \in Threads :
            (Leaves(t, "gwt_body") \/ Leaves(t, "try_body")) =>
                bucket'.last_refill = clock]_vars

\* C30 witness: last_refill moved on to the present clock value by calls of
\* different operations from two callers
C30_Witness ==
    \E t, u \in Threads :
        /\ top[t] = "get_wait_time" /\ state[t] = "returned"
        /\ top[u] = "acquire" /\ state[u] = "returned"
        /\ nsleeps[u] >= 1
        /\ clock >= 2
        /\ bucket.last_refill = clock

\* -------------------------------------------- claims C31 to C38
\* C31: refill is idempotent with respect to physical time.  From every
\* state the bucket reaches, a second refill at the clock value of the
\* first leaves the bucket as the first left it; a refill at t1 followed by
\* one at t2 >= t1 leaves the tokens and last_refill a single refill at t2
\* leaves; and a direct _refill() call at the clock value of the last
\* refill changes nothing.
C31_RefillIdempotent ==
    /\ [](LET once == _refill(bucket, clock)
          IN  _refill(once, clock) = once)
    /\ [](\A t1 \in clock..MaxTime : \A t2 \in t1..MaxTime :
            /\ _refill(_refill(bucket, t1), t1) = _refill(bucket, t1)
            /\ _refill(_refill(bucket, t1), t2) = _refill(bucket, t2))
    /\ [][\A t \in Threads :
            CallRefill(t) /\ bucket.last_refill = clock
                => bucket' = bucket]_vars

\* A bucket that was refilled at the present clock value, after time has
\* passed, and is not full: a later refill fills it in part and one after
\* that reaches the capacity
C31_Witness ==
    /\ clock >= 1
    /\ bucket.last_refill = clock
    /\ bucket.tokens < Capacity
    /\ \E t1 \in clock..MaxTime : \E t2 \in t1..MaxTime :
        /\ bucket.tokens < _refill(bucket, t1).tokens
        /\ _refill(bucket, t1).tokens < Capacity
        /\ _refill(bucket, t2).tokens = Capacity

\* C32: the exponent of the backoff counts the 429 responses of this send
\* call, those answered through Retry-After included.  When the k-th
\* response of the call (every one before it was a 429) is a 429 without a
\* usable Retry-After and send goes on to sleep, retries is k and the sleep
\* is backoff_base * 2^(k-1), whatever headers the earlier 429s carried; it
\* is longer than the backoff of every earlier position of the call.
C32_BackoffCountsAll429 ==
    [][\A t \in Senders :
        (/\ Leaves(t, "send_check")
         /\ pc'[t] = "send_sleep"
         /\ _parse_retry_after(response[t]) = None)
            => LET k == sends[t] IN
               /\ retries'[t] = k
               /\ wait_time'[t] = adapter.config.backoff_base * Pow2(k - 1)
               /\ waits'[t][k] = adapter.config.backoff_base * Pow2(k - 1)
               /\ \A j \in 1..(k - 1) :
                    wait_time'[t] > adapter.config.backoff_base * Pow2(j - 1)]_vars

\* The first 429 carried Retry-After: 0 and was waited for 0; the second
\* carries no header and is waited for 2 * backoff_base
C32_Witness ==
    \E t \in Senders :
        /\ top[t] = "send"
        /\ pc[t] = "send_sleep"
        /\ sends[t] = 2
        /\ ~all_plain[t]
        /\ response[t].retry_after = Absent
        /\ waits[t] = <<0, 2 * adapter.config.backoff_base>>
        /\ wait_time[t] = 2 * adapter.config.backoff_base

\* C33 as stated: a Retry-After that parses to a negative number or to a
\* non-finite value (inf, nan) is treated like an absent header: send does
\* not raise, and sleeps the exponential backoff delay, which is neither
\* negative nor without bound.
C33_Original ==
    [][\A t \in Senders :
        LET parsed == _parse_retry_after(response[t]) IN
        (Retrying(t)
            /\ (parsed.kind \in {"inf", "-inf", "nan"}
                \/ (parsed.kind = "num" /\ parsed.v < 0))) =>
            /\ state'[t] # "raised"
            /\ pc'[t] = "send_sleep"
            /\ wait_time'[t] = BackoffNow(t)
            /\ wait_time'[t] >= 0]_vars

\* C34: the retry state belongs to one send call.  retries is 0 when a call
\* begins; it changes only when its own call handles a 429, and then by
\* one; a step of one call changes neither the retries nor the delays of
\* another; a call has received as many 429s as its retries say, and it
\* returns a 429 only when it has used max_retries + 1 sends of its own,
\* however many 429s the calls running beside it received.
C34_RetriesPerCall ==
    /\ [][\A t \in Threads :
            pc[t] = "idle" /\ pc'[t] # "idle" /\ top'[t] = "send"
                => retries'[t] = 0]_vars
    /\ [][\A t \in Threads :
            retries'[t] # retries[t]
                => \/ pc[t] = "idle" /\ retries'[t] = 0
                   \/ /\ Leaves(t, "send_check")
                      /\ response[t].status_code = TooManyRequests
                      /\ retries'[t] = retries[t] + 1]_vars
    /\ [][\A t \in Threads :
            Leaves(t, "send_check")
                => /\ response[t].status_code = TooManyRequests
                        => retries'[t] = retries[t] + 1
                   /\ \A u \in Threads \ {t} :
                        /\ retries'[u] = retries[u]
                        /\ wait_time'[u] = wait_time[u]
                        /\ wake'[u] = wake[u]
                        /\ waits'[u] = waits[u]
                        /\ sends'[u] = sends[u]]_vars
    /\ [](\A t \in Threads :
            top[t] = "send" =>
                /\ retries[t] = IF \/ pc[t] = "send_check"
                                   \/ state[t] = "raised"
                                   \/ /\ state[t] = "returned"
                                      /\ ret[t].v.status_code # TooManyRequests
                                THEN sends[t] - 1
                                ELSE sends[t]
                /\ (state[t] = "returned"
                        /\ ret[t].v.status_code = TooManyRequests)
                     => /\ sends[t] = adapter.config.max_retries + 1
                        /\ retries[t] = adapter.config.max_retries + 1)

\* Two send calls in progress on the one adapter: one has received two 429s
\* and sleeps before its last resend, the other has just received its first
\* 429 and has counted nothing yet
C34_Witness ==
    \E t, u \in Threads :
        /\ t # u
        /\ top[t] = "send" /\ top[u] = "send"
        /\ pc[t] = "send_sleep"
        /\ retries[t] = 2
        /\ sends[t] = 2
        /\ pc[u] = "send_check"
        /\ response[u].status_code = TooManyRequests
        /\ retries[u] = 0
        /\ sends[u] = 1

\* C35 as stated: the registry operations are atomic with respect to each
\* other.  Under any interleaving of get_limiter, configure and reset from
\* several threads every get_limiter call returns a TokenBucket, never
\* failing because the entry was removed or replaced between its check and
\* its return, and the bucket it returns is one the registry stored under
\* the key of the call.
C35_Original ==
    \A t \in Threads :
        (top[t] = "get_limiter" /\ pc[t] = "idle"
                /\ state[t] \in {"returned", "raised"})
            => /\ state[t] = "returned"
               /\ ret[t].kind = "TokenBucket"
               /\ ret[t].v \in 1..Len(heap)

\* C36 as stated: the policy map and the bucket map stay consistent.  For
\* each key that has both a stored policy and a bucket, the bucket's config
\* is the stored config; a configure that has completed is never lost to a
\* get_limiter that builds the bucket concurrently from the older policy.
\* (While a configure is between storing the policy and replacing the
\* bucket the two may differ; the statement is about the keys no configure
\* is at work on.)
C36_Original ==
    \A k \in DictKeys :
        (/\ _configs[k] # NoPolicy
         /\ _limiters[k] # NoBucket
         /\ \A t \in Threads :
                ~(top[t] = "configure" /\ pc[t] \in {"cf_check", "cf_replace"}
                    /\ reg[t].service_key = k))
            => heap[_limiters[k]].config = _configs[k]

\* C37: operations on one key leave the other keys alone.  No step of
\* get_limiter(k) or configure(k, p) changes the stored policy or the stored
\* bucket of another key, or any bucket that exists (the bucket configure
\* stores is a new instance); and drawing on the bucket of one service
\* changes the tokens of that instance only, and neither map.
C37_OtherKeysUntouched ==
    /\ [][\A t \in Threads :
            (Leaves(t, "idle") /\ top'[t] \in {"get_limiter", "configure"})
                => /\ _configs' = _configs
                   /\ _limiters' = _limiters
                   /\ heap' = heap]_vars
    /\ [][\A t \in Threads :
            (top[t] \in {"get_limiter", "configure"}
                    /\ InRegistry(t)
                    /\ pc[t] \notin {"gl_check", "cf_store"}
                    /\ pc'[t] # pc[t])
                => LET key == reg[t].service_key IN
                   /\ key = KeyOf(reg[t].service_name)
                   /\ \A k \in DictKeys \ {key} :
                        /\ _configs'[k] = _configs[k]
                        /\ _limiters'[k] = _limiters[k]
                   /\ \A i \in 1..Len(heap) : heap'[i] = heap[i]]_vars
    /\ [][\A t \in Threads :
            (Leaves(t, "gl_check") \/ Leaves(t, "cf_store"))
                => /\ \A k \in DictKeys \ {KeyOf(reg[t].service_name)} :
                        /\ _configs'[k] = _configs[k]
                        /\ _limiters'[k] = _limiters[k]
                   /\ heap' = heap]_vars
    /\ [][\A t \in Threads :
            UseLimiter(t)
                => /\ heap'[ret[t].v] = try_acquire(heap[ret[t].v], clock).bucket
                   /\ \A i \in 1..Len(heap) :
                        i # ret[t].v => heap'[i] = heap[i]
                   /\ _limiters' = _limiters
                   /\ _configs' = _configs]_vars

\* Two services in use: the bucket of confluence was drawn on, then a policy
\* was configured for jira and its bucket built from it and drawn on; the
\* bucket of confluence is as it was left, and confluence has no policy
C37_Witness ==
    /\ Quiet
    /\ _limiters[Confluence] = 1
    /\ _limiters[Jira] = 2
    /\ _configs[Jira] # NoPolicy
    /\ _configs[Confluence] = NoPolicy
    /\ heap[2].config = _configs[Jira]
    /\ heap[1].config # heap[2].config
    /\ heap[1].tokens = (heap[1].config.burst_capacity - 1) * One
    /\ heap[2].tokens < heap[2].config.burst_capacity * One
    /\ heap[2].last_refill > heap[1].last_refill

\* C38: cancelling a coroutine suspended in acquire_async.  The call ends
\* with CancelledError, from one of its two suspension points and nowhere
\* else; the step takes no token and the call has taken none; the async
\* lock is released when the coroutine held it (it was sleeping) and left
\* as it is when it was waiting for it; the lock is never left held by
\* nobody; and every other acquire_async in progress goes on to return with
\* its one token, unless it is cancelled itself.
C38_CancelReleases ==
    /\ [][\A t \in Threads :
            (top[t] = "acquire_async" /\ state[t] = "running"
                    /\ state'[t] = "raised")
                => /\ pc[t] \in {"async_enter", "acq_sleep"}
                   /\ pc'[t] = "idle"
                   /\ ret'[t] = Exception("CancelledError")
                   /\ bucket' = bucket
                   /\ took[t] = 0 /\ took'[t] = 0
                   /\ lock' = lock
                   /\ pc[t] = "acq_sleep"
                        => async_lock = "locked" /\ async_lock' = "unlocked"
                   /\ pc[t] = "async_enter" => async_lock' = async_lock
                   /\ \A u \in Threads \ {t} :
                        /\ pc'[u] = pc[u]
                        /\ state'[u] = state[u]
                        /\ took'[u] = took[u]]_vars
    /\ [](\A t \in Threads :
            (top[t] = "acquire_async" /\ state[t] = "raised")
                => took[t] = 0 /\ ret[t] = Exception("CancelledError"))
    /\ [](async_lock = "locked"
            <=> \E u \in Threads : InAsyncLoop(u))
    /\ \A t \in Threads :
            (top[t] = "acquire_async" /\ state[t] = "running")
                ~> \/ state[t] = "returned" /\ took[t] = 1
                   \/ state[t] = "raised"

\* A coroutine was cancelled in its sleep, holding the async lock, while
\* another waited for that lock; the other has since been through the loop,
\* slept in its turn, and returned with its token
C38_Witness ==
    \E t, u \in Threads :
        /\ t # u
        /\ top[t] = "acquire_async" /\ state[t] = "raised"
        /\ nsleeps[t] >= 1
        /\ top[u] = "acquire_async" /\ state[u] = "returned"
        /\ took[u] = 1
        /\ view[u] = "empty"
        /\ nsleeps[u] >= 1
        /\ async_lock = "unlocked"

=============================================================================
